---------------------------- MODULE Spec2Model ----------------------------
(***************************************************************************)
(* A model of libdebctrl's RFC822 control file parser (src/src/parser.c):  *)
(* the line classifier dc_parser_read_line, the chunk and block builders   *)
(* dc_parse_chunk and dc_parse_block, the read loop of                     *)
(* dc_parser_read_file, the diagnostic facility of src/src/error.c and the *)
(* flattening routine dc_parser_block_string.  Spec follows one read line  *)
(* by line; SpecFiles installs handlers and reads whole files in one step. *)
(*                                                                         *)
(* A C string is a sequence of one-character strings.  The linked lists    *)
(* (chunks of a block, blocks of a section, sections of a parser) are the  *)
(* sequences obtained by following the next links from the head; the tail  *)
(* pointer of a list is its last element.  Allocations are taken to        *)
(* succeed, except the realloc of dc_string_resize, which SpecString lets  *)
(* succeed or fail in every call.                                          *)
(***************************************************************************)
EXTENDS Integers, Sequences, FiniteSets, TLC

VARIABLES
  parser,  \* the dcParser object: head (list of sections), ctx, handler
  pc,      \* where the caller of dc_parser_read_file is
  rc,      \* the local variable rc of dc_parser_read_file
  status,  \* the status returned by the dc_parser_read_file call
  file,    \* the lines getline has handed out so far, in order
  diag,    \* the invocations of the warn and crit handlers, in order
  flat,    \* the result of a dc_parser_block_string call, if one was made
  reread,  \* how a second dc_parser_read_file call on the parser ended, if made
  calls,   \* the dc_error_handler_warn and dc_error_handler_crit calls made
  blk,     \* a dcParserBlock of the caller's own: name, head, tail
  mem,     \* the dcParserChunk objects made for that block, by address
  seq,     \* the sequence of chunk addresses that block is meant to hold
  freed,   \* the arguments of the free() calls made, in order
  handle,  \* the caller's pointer that is passed to a destructor
  sec,     \* a dcParserSection of the caller's own: head, tail
  bmem,    \* the dcParserBlock objects made for that section, by address
  valid,   \* the dc_valid_package call made: the name and the status returned
  control, \* the caller's pointer to its dcControl object
  ver,     \* the caller's pointer to its dcVersion object
  strs,    \* the two objects and the strings strdup has made, by address
  vsets,   \* the dc_version_set calls made: the string and the status returned
  mapped,  \* how the dc_control_parse call ended, if one was made
  doc,     \* the pointers of the dcParser object to its sections: head, tail
  smem,    \* the dcParserSection objects made for the parser, by address
  input,   \* the lines of the file a read is given, when they are known before
  docs,    \* the objects of two parsers of one caller, and what the caller holds
  dstr,    \* a dcString of the caller's own: text, len, size
  strops   \* the dc_string_ calls made on it, each with the writes it made

\* the state of a section of the caller's own
sectioning == <<sec, bmem>>

\* the state of the mapping of fields to values
mapping == <<valid, control, ver, strs, vsets, mapped>>

\* the section list of the parser, by its pointers
owned == <<doc, smem>>

\* the state of the callers that are on their own
apart == <<input, docs, dstr, strops>>

\* the state a read does not touch
rest == <<calls, blk, mem, seq, freed, handle, sectioning, mapping, apart>>

\* the state of a read
reading == <<pc, rc, status, file, diag, flat, reread>>

vars == <<parser, reading, rest, owned>>

---------------------------------------------------------------------------
(* Bounds and input domains *)

\* the number of lines a file holds at most
MaxLines == 4

\* a null pointer where a C string is expected (no string holds this element)
NULL == <<"NULL">>

\* the byte that ends a C string
NUL == "NUL"

\* the file names handed to dc_parser_read_file
Paths == { <<"c">> }

\* the lines getline can return; each but the last kind ends in a line feed
Lines ==
  { <<"A", ":", "x", "\n">>,                 \* a field with a value
    <<"a", ":", "\t", "y", ":", " ", "\n">>, \* same name in lower case, padded value
    <<"B", ":", "\n">>,                      \* a field with a blank value
    <<":", "x", "\n">>,                      \* a field with an empty name
    <<" ", "x", "\n">>,                      \* one leading blank
    <<" ", "\t", "x", "\n">>,                \* two leading blanks
    <<" ", ".", " ", "\n">>,                 \* a lone full stop
    <<" ", ".", "x", "\n">>,                 \* a full stop followed by text
    <<"\n">>,                                \* an empty line
    <<" ", "\r", "\n">>,                     \* a line of white space
    <<"#", "c", "\n">>,                      \* a comment
    <<"x">> }                                \* no colon, no line feed: a last line

---------------------------------------------------------------------------
(* dcStatus, src/unnamed/part_004 *)

dcNoErr == "dcNoErr"
dcParameterErr == "dcParameterErr"
dcMemFullErr == "dcMemFullErr"
dcFileErr == "dcFileErr"
dcSyntaxErr == "dcSyntaxErr"
dcPackagePrefixErr == "dcPackagePrefixErr"
dcPackageLengthErr == "dcPackageLengthErr"
dcPackageInvalidErr == "dcPackageInvalidErr"

dcStatus ==
  { dcNoErr, dcParameterErr, dcMemFullErr, dcFileErr, dcSyntaxErr,
    dcPackagePrefixErr, dcPackageLengthErr, dcPackageInvalidErr }

\* an int that is the value of no enumerator of dcStatus: it stands for
\* every such value
OtherInt == "int"

\* what a dcStatus variable that was never written can hold
IndeterminateStatus == dcStatus \cup {OtherInt}

(* dcParserChunkType *)
CHUNK_EMPTY == "CHUNK_EMPTY"
CHUNK_MERGE == "CHUNK_MERGE"
CHUNK_FIXED == "CHUNK_FIXED"

---------------------------------------------------------------------------
(* String helpers *)

\* the byte at C index i of the string s: s[i], or the terminator
CharAt(s, i) == IF i < Len(s) THEN s[i + 1] ELSE NUL

\* the string that starts at C index i of s: s + i
From(s, i) == SubSeq(s, i + 1, Len(s))

\* tolower in the C locale
ToLower(c) ==
  CASE c = "A" -> "a"
    [] c = "B" -> "b"
    [] c = "C" -> "c"
    [] c = "D" -> "d"
    [] c = "E" -> "e"
    [] c = "F" -> "f"
    [] c = "G" -> "g"
    [] c = "H" -> "h"
    [] c = "I" -> "i"
    [] c = "J" -> "j"
    [] c = "K" -> "k"
    [] c = "L" -> "l"
    [] c = "M" -> "m"
    [] c = "N" -> "n"
    [] c = "O" -> "o"
    [] c = "P" -> "p"
    [] c = "Q" -> "q"
    [] c = "R" -> "r"
    [] c = "S" -> "s"
    [] c = "T" -> "t"
    [] c = "U" -> "u"
    [] c = "V" -> "v"
    [] c = "W" -> "w"
    [] c = "X" -> "x"
    [] c = "Y" -> "y"
    [] c = "Z" -> "z"
    [] OTHER -> c

\* a comparison that tells upper case from lower case: strcmp(a, b) == 0
StrcmpEq(a, b) == a = b

\* strcasecmp(a, b) == 0
strcasecmp(a, b) ==
  /\ Len(a) = Len(b)
  /\ \A i \in 1..Len(a) : ToLower(a[i]) = ToLower(b[i])

\* the loop of dc_strchomp: the index at which the terminator is written
RECURSIVE ChompIndex(_, _)
ChompIndex(text, i) ==
  IF i > 0 /\ text[i] \in {" ", "\t", "\r", "\n"}
    THEN ChompIndex(text, i - 1)
    ELSE i

dc_strchomp(text, len) == SubSeq(text, 1, ChompIndex(text, len))

\* a dc_strchug that removes nothing
ChugNothing(text) == text

RECURSIVE dc_strchug(_)
dc_strchug(text) ==
  IF text # <<>> /\ Head(text) \in {" ", "\t"}
    THEN dc_strchug(Tail(text))
    ELSE text

---------------------------------------------------------------------------
(* The diagnostic facility, src/src/error.c *)

dc_emit_warning == "dc_emit_warning"
dc_emit_error == "dc_emit_error"

MsgNoBlock == "Attempted to continue previous statement"
MsgReserved == "Lines beginning with '.' are reserved"
MsgNoColon == "Expected pseudoheader/data pair"
MsgDuplicate == "Duplicate field names are not permitted"
MsgBlank == "Multiple blank lines"
MsgOpen == "Can't open file"

\* dc_error_handler_new and dc_error_handler_init
dc_error_handler_new == [warn |-> dc_emit_warning, crit |-> dc_emit_error]

\* a null pointer where a handler function is expected
NullHandler == "NULL"

\* handler functions a caller supplies; each returns to its caller
CallerWarn == "caller_warn"
CallerCrit == "caller_crit"

\* other handler functions a caller supplies
OtherWarn == "other_warn"
OtherCrit == "other_crit"

\* a dc_error_handler_warn that stores what it is given
WarnStoresArgument(handler, warn) == [handler EXCEPT !.warn = warn]

dc_error_handler_warn(handler, warn) ==
  [handler EXCEPT !.warn = IF warn = NullHandler THEN dc_emit_warning ELSE warn]

\* a dc_error_handler_crit that restores the default warn handler as well
CritResetsWarn(handler, crit) ==
  [warn |-> dc_emit_warning,
   crit |-> IF crit = NullHandler THEN dc_emit_error ELSE crit]

dc_error_handler_crit(handler, crit) ==
  [handler EXCEPT !.crit = IF crit = NullHandler THEN dc_emit_error ELSE crit]

\* one invocation of the installed warn handler; ctx is <<>> for a null
\* context and <<c>> for a pointer to the context c
dc_warn(handler, ctx, msg) ==
  [fn |-> handler.warn, sev |-> "warn", ctx |-> ctx, msg |-> msg]

\* a dc_crit that hands the message to the warn handler
CritViaWarn(handler, ctx, msg) ==
  [fn |-> handler.warn, sev |-> "warn", ctx |-> ctx, msg |-> msg]

\* one invocation of the installed crit handler
dc_crit(handler, ctx, msg) ==
  [fn |-> handler.crit, sev |-> "crit", ctx |-> ctx, msg |-> msg]

---------------------------------------------------------------------------
(* The document model *)

\* a path pointer that was never written: it stands for NULL and for every
\* other value of a pointer, and is no string itself
AnyPath == <<"ANY">>

\* a line number that was never written: it stands for every value of an
\* unsigned int, 0 included, and is no line number itself
AnyLine == -1

\* what the context of a chunk that was never written can hold: malloc does
\* not clear the memory it hands out. No function reads the context of a
\* chunk it has not assigned (dc_parse_chunk and dc_parse_block assign it
\* before the chunk is linked), so the values are not told apart
IndeterminateContext == { [path |-> AnyPath, line |-> AnyLine] }

\* the context of a chunk that is assigned before it is read: whichever
\* value the memory held, the chunk is the same after the assignment
Overwritten == [path |-> NULL, line |-> 0]

\* a dc_parser_chunk_new without the test for a null text
ChunkNewUntested(text, was) ==
  [text |-> text, type |-> CHUNK_MERGE, ctx |-> was]

\* dc_parser_chunk_new(text): text, type, next and prev are set, and ctx is
\* left as malloc handed it out, which is was
dc_parser_chunk_new(text, was) ==
  IF text = NULL
    THEN [text |-> NULL, type |-> CHUNK_EMPTY, ctx |-> was]
    ELSE [text |-> text, type |-> CHUNK_MERGE, ctx |-> was]

dc_parser_block_new(name) == [name |-> name, chunks |-> <<>>]

\* a dc_parser_block_append that links the chunk in front of the head
BlockPrepend(block, chunk) ==
  [block EXCEPT !.chunks = <<chunk>> \o @]

dc_parser_block_append(block, chunk) ==
  [block EXCEPT !.chunks = Append(@, chunk)]

\* a section is the list of its blocks
dc_parser_section_new == <<>>

\* a dc_parser_section_append that links the block in front of the head
SectionPrepend(section, block) == <<block>> \o section

dc_parser_section_append(section, block) == Append(section, block)

\* the loop of dc_parser_section_find: the index of the first block at or
\* after i whose name matches, 0 for a null result
RECURSIVE FindFrom(_, _, _)
FindFrom(section, field, i) ==
  IF i > Len(section) THEN 0
  ELSE IF strcasecmp(section[i].name, field) THEN i
  ELSE FindFrom(section, field, i + 1)

\* a lookup that compares the name of the section's tail block only
FindTailOnly(section, field) ==
  IF section # <<>> /\ strcasecmp(section[Len(section)].name, field)
    THEN Len(section)
    ELSE 0

dc_parser_section_find(section, field) == FindFrom(section, field, 1)

dc_parser_new ==
  [head |-> <<>>, ctx |-> [path |-> NULL, line |-> 0], handler |-> dc_error_handler_new]

dc_parser_append(p, section) == [p EXCEPT !.head = Append(@, section)]

\* parser->tail: the section dc_parser_append linked last
ParserTail(p) == p.head[Len(p.head)]

\* the parser with its tail section replaced by s
WithTail(p, s) == [p EXCEPT !.head[Len(p.head)] = s]

---------------------------------------------------------------------------
(* A block with its chunks as the objects they are: the chunks are kept by   *)
(* address in a memory, and linked by their next and prev pointers           *)

\* a null pointer to a chunk; the chunks have the addresses 1, 2, ...
Nil == 0

\* the dcParserChunk dc_parser_chunk_new returns: next and prev are NULL
ChunkNode(text, was) ==
  [chunk |-> dc_parser_chunk_new(text, was), next |-> Nil, prev |-> Nil]

\* a block and the memory of its chunks, as an operation leaves them
Linked(b, m) == [block |-> b, mem |-> m]

\* a dc_parser_block_append that does not set the prev pointer of the chunk
LinkAppendOneWay(b, m, a) ==
  IF b.head = Nil
    THEN Linked([b EXCEPT !.head = a, !.tail = a], m)
    ELSE Linked([b EXCEPT !.tail = a], [m EXCEPT ![b.tail].next = a])

\* dc_parser_block_append on the block b and the chunk at address a
LinkAppend(b, m, a) ==
  IF b.head = Nil
    THEN Linked([b EXCEPT !.head = a, !.tail = a], m)
    ELSE Linked([b EXCEPT !.tail = a],
                [m EXCEPT ![a].prev = b.tail, ![b.tail].next = a])

\* dc_parser_block_prepend on the block b and the chunk at address a
LinkPrepend(b, m, a) ==
  IF b.head = Nil
    THEN Linked([b EXCEPT !.head = a, !.tail = a], m)
    ELSE Linked([b EXCEPT !.head = a],
                [m EXCEPT ![a].next = b.head, ![b.head].prev = a])

\* dc_parser_block_delete on the block b and the chunk at address a, up to
\* its call of dc_parser_chunk_free
Unlink(b, m, a) ==
  LET prev == m[a].prev
      next == m[a].next
      b1 == IF prev = Nil THEN [b EXCEPT !.head = next] ELSE b
      m1 == IF prev = Nil THEN m ELSE [m EXCEPT ![prev].next = next]
      b2 == IF next = Nil THEN [b1 EXCEPT !.tail = prev] ELSE b1
      m2 == IF next = Nil THEN m1 ELSE [m1 EXCEPT ![next].prev = prev]
  IN Linked(b2, m2)

\* the chunks met from address a on by following next, at most n of them
RECURSIVE Forward(_, _, _)
Forward(m, a, n) ==
  IF a = Nil \/ n = 0 THEN <<>> ELSE <<a>> \o Forward(m, m[a].next, n - 1)

\* the chunks met from address a on by following prev, at most n of them
RECURSIVE Backward(_, _, _)
Backward(m, a, n) ==
  IF a = Nil \/ n = 0 THEN <<>> ELSE <<a>> \o Backward(m, m[a].prev, n - 1)

\* a pointer that is not NULL and points to no block
Wild == -1

\* what a pointer field that was never written can hold: malloc does not
\* clear the memory it hands out
Indeterminate(m) == {Nil, Wild} \cup (1..Len(m))

\* the blocks of m as they can be once malloc has handed out the address a:
\* a prev that was never written and was the address of no block holds what
\* it held, which can be the address handed out now
HandedOut(m, a) ==
  { [i \in 1..Len(m) |-> IF i \in same THEN [m[i] EXCEPT !.prev = a] ELSE m[i]] :
      same \in SUBSET { i \in 1..Len(m) : m[i].prev = Wild } }

\* the dcParserBlock dc_parser_block_new returns: name, head, tail and next
\* are set, prev is left as malloc handed it out
BlockNode(name, prev) == [name |-> name, next |-> Nil, prev |-> prev]

\* dc_parser_section_append on the section s and the block at address a
LinkBlock(s, m, a) ==
  IF s.head = Nil
    THEN Linked([s EXCEPT !.head = a, !.tail = a], m)
    ELSE Linked([s EXCEPT !.tail = a],
                [m EXCEPT ![a].prev = s.tail, ![s.tail].next = a])

\* the dcParserSection dc_parser_section_new returns
SectionNode == [next |-> Nil]

\* the loop of dc_parser_append: the section met from node on whose next is
\* NULL
RECURSIVE LastSection(_, _)
LastSection(m, node) ==
  IF m[node].next = Nil THEN node ELSE LastSection(m, m[node].next)

\* a dc_parser_append that links the section in front of the head
LinkSectionInFront(p, m, a) ==
  IF p.head = Nil
    THEN Linked([p EXCEPT !.head = a, !.tail = a], m)
    ELSE Linked([p EXCEPT !.head = a, !.tail = a], [m EXCEPT ![a].next = p.head])

\* dc_parser_append on the pointers p of the parser and the section at
\* address a
LinkSection(p, m, a) ==
  IF p.head = Nil
    THEN Linked([p EXCEPT !.head = a, !.tail = a], m)
    ELSE Linked([p EXCEPT !.tail = a],
                [m EXCEPT ![LastSection(m, p.head)].next = a])

\* n calls of dc_parser_append, each with a section dc_parser_section_new
\* has just returned
RECURSIVE LinkSections(_, _, _)
LinkSections(p, m, n) ==
  IF n <= 0 THEN Linked(p, m)
  ELSE LET r == LinkSection(p, Append(m, SectionNode), Len(m) + 1)
       IN LinkSections(r.block, r.mem, n - 1)

---------------------------------------------------------------------------
(* validate.c, version.c and the control object *)

\* islower and isdigit in the C locale
Lower ==
  { "a", "b", "c", "d", "e", "f", "g", "h", "i", "j", "k", "l", "m",
    "n", "o", "p", "q", "r", "s", "t", "u", "v", "w", "x", "y", "z" }
Digits == { "0", "1", "2", "3", "4", "5", "6", "7", "8", "9" }

\* a dc_valid_package that tests the first character before the length
ValidPrefixFirst(name) ==
  IF CharAt(name, 0) \notin Lower \cup Digits
    THEN dcPackagePrefixErr
  ELSE IF CharAt(name, 0) = NUL \/ CharAt(name, 1) = NUL
    THEN dcPackageLengthErr
  ELSE IF \E i \in 2..Len(name) : name[i] \notin Lower \cup Digits \cup {"+", "-", "."}
    THEN dcPackageInvalidErr
  ELSE dcNoErr

\* dc_valid_package on a name that is not NULL
dc_valid_package(name) ==
  IF CharAt(name, 0) = NUL \/ CharAt(name, 1) = NUL
    THEN dcPackageLengthErr
  ELSE IF CharAt(name, 0) \notin Lower \cup Digits
    THEN dcPackagePrefixErr
  ELSE IF \E i \in 2..Len(name) : name[i] \notin Lower \cup Digits \cup {"+", "-", "."}
    THEN dcPackageInvalidErr
  ELSE dcNoErr

\* dc_control_source_init(source): no name; the name is kept by address
dc_control_source_init(source) == [source EXCEPT !.name = Nil]

\* dc_control_source_clear(source): the addresses passed to free(); the
\* pointer is left as it was
dc_control_source_clear(source) ==
  IF source.name # Nil THEN <<source.name>> ELSE <<>>

\* dc_control_free(ptr) on the object at address a of heap: the addresses
\* passed to free(), and the caller's pointer as it is left
dc_control_free(a, heap) ==
  [freed |-> dc_control_source_clear(heap[a].source) \o <<a>>, ptr |-> Nil]

\* dc_control_new: the default handlers, and no source name
dc_control_new ==
  [handler |-> dc_error_handler_new, source |-> dc_control_source_init([name |-> Wild])]

\* an unsigned long is kept as its decimal numeral without leading zeros
Zero == <<"0">>

\* dc_version_new: epoch 0, no version and no revision; the strings are
\* kept by address, and 0 is the null pointer
dc_version_new == [epoch |-> Zero, version |-> Nil, revision |-> Nil]

\* the scan of dc_version_set for the epoch: the position of the first ':'
\* at or after i, Len(buf) + 1 when there is none
RECURSIVE EpochEnd(_, _)
EpochEnd(buf, i) ==
  IF i > Len(buf) \/ buf[i] = ":" THEN i ELSE EpochEnd(buf, i + 1)

\* the scan of dc_version_set for the revision in the first '-' it meets
FirstDash(uversion) ==
  IF \E i \in 1..Len(uversion) : uversion[i] = "-"
    THEN CHOOSE i \in 1..Len(uversion) :
           uversion[i] = "-" /\ \A j \in 1..(i - 1) : uversion[j] # "-"
    ELSE 0

\* the scan of dc_version_set for the revision: the position of the last
\* '-' of the string, 0 when dversion stays NULL
RECURSIVE LastDashFrom(_, _, _)
LastDashFrom(uversion, i, dversion) ==
  IF i > Len(uversion) THEN dversion
  ELSE LastDashFrom(uversion, i + 1, IF uversion[i] = "-" THEN i ELSE dversion)

LastDash(uversion) == LastDashFrom(uversion, 1, 0)

\* the greatest unsigned long, of 64 bits
ULONG_MAX ==
  <<"1", "8", "4", "4", "6", "7", "4", "4", "0", "7",
    "3", "7", "0", "9", "5", "5", "1", "6", "1", "5">>

\* the value of a digit
DigitValue(c) == CHOOSE n \in 0..9 : ToString(n) = c

\* a < b, for two numerals
NumeralLess(a, b) ==
  \/ Len(a) < Len(b)
  \/ /\ Len(a) = Len(b)
     /\ \E i \in 1..Len(a) :
          /\ DigitValue(a[i]) < DigitValue(b[i])
          /\ \A j \in 1..(i - 1) : a[j] = b[j]

\* 10 * acc + c
TimesTenPlus(acc, c) == IF acc = Zero THEN <<c>> ELSE Append(acc, c)

\* the conversion of strtoul from digit i of buf on, with the value acc of
\* the digits before it: a value beyond ULONG_MAX gives ULONG_MAX
RECURSIVE strtoulFrom(_, _, _)
strtoulFrom(buf, i, acc) ==
  IF i > Len(buf) THEN acc
  ELSE IF NumeralLess(ULONG_MAX, TimesTenPlus(acc, buf[i])) THEN ULONG_MAX
  ELSE strtoulFrom(buf, i + 1, TimesTenPlus(acc, buf[i]))

\* strtoul(buf, NULL, 10) on a string of digits; the empty string gives 0
strtoul(buf) == strtoulFrom(buf, 1, Zero)

\* what a step of dc_version_set leaves: the object, and the addresses it
\* passed to free()
Reset(v, released) == [version |-> v, freed |-> released]

\* a reset that clears the epoch and the version only
ResetKeepsRevision(v) ==
  Reset([v EXCEPT !.epoch = Zero, !.version = Nil],
        IF v.version # Nil THEN <<v.version>> ELSE <<>>)

\* the reset of all internal parameters at the start of dc_version_set
VersionReset(v) ==
  Reset([v EXCEPT !.epoch = Zero, !.version = Nil, !.revision = Nil],
        (IF v.version # Nil THEN <<v.version>> ELSE <<>>)
          \o (IF v.revision # Nil THEN <<v.revision>> ELSE <<>>))

\* dc_version_set(version, vstring) on the object v with the strings made so
\* far in heap: the status, the object, the strings and the addresses freed
dc_version_set(v, heap, vstring) ==
  LET reset == VersionReset(v)
      buf == Len(heap) + 1
      heap1 == Append(heap, vstring)
      colon == EpochEnd(vstring, 1)
      epoch == SubSeq(vstring, 1, colon - 1)
      uversion == IF colon <= Len(vstring)
                    THEN SubSeq(vstring, colon + 1, Len(vstring))
                    ELSE vstring
      dversion == LastDash(uversion)
      heap2 == IF dversion # 0
                 THEN Append(heap1, SubSeq(uversion, dversion + 1, Len(uversion)))
                 ELSE heap1
      heap3 == Append(heap2, IF dversion # 0
                               THEN SubSeq(uversion, 1, dversion - 1)
                               ELSE uversion)
  IN IF colon <= Len(vstring) /\ \E i \in 1..Len(epoch) : epoch[i] \notin Digits
       THEN [rc |-> dcParameterErr,
             version |-> reset.version,
             strs |-> heap1,
             freed |-> reset.freed \o <<buf>>]
       ELSE [rc |-> dcNoErr,
             version |->
               [reset.version EXCEPT
                  !.epoch = IF colon <= Len(vstring) THEN strtoul(epoch) ELSE @,
                  !.revision = IF dversion # 0 THEN Len(heap2) ELSE @,
                  !.version = Len(heap3)],
             strs |-> heap3,
             freed |-> reset.freed \o <<buf>>]

\* dc_version_free(ptr) on the object at address a of heap: the addresses
\* passed to free(), and the caller's pointer as it is left
dc_version_free(a, heap) ==
  [freed |-> (IF heap[a].version # Nil THEN <<heap[a].version>> ELSE <<>>)
               \o (IF heap[a].revision # Nil THEN <<heap[a].revision>> ELSE <<>>)
               \o <<a>>,
   ptr |-> Nil]

---------------------------------------------------------------------------
(* The parsing engine *)

\* what a line handler hands back: its status, the parser as it leaves it
\* and the handler invocations it made
Result(r, p, out) == [rc |-> r, parser |-> p, out |-> out]

\* a dc_parse_chunk that, with no block in the tail section, continues the
\* last block of the section before it
ParseChunkIntoEarlier(p, line) ==
  LET n == Len(p.head)
      s == IF Len(p.head[n]) = 0 /\ n > 1 THEN n - 1 ELSE n
      section == p.head[s]
      ctx == <<p.ctx>>
      chunk ==
        IF CharAt(line, 1) = "."
          THEN dc_parser_chunk_new(NULL, Overwritten)
          ELSE IF CharAt(line, 1) \in {" ", "\t"}
            THEN [dc_parser_chunk_new(From(line, 2), Overwritten) EXCEPT !.type = CHUNK_FIXED]
            ELSE dc_parser_chunk_new(From(line, 1), Overwritten)
      stamped == [chunk EXCEPT !.ctx = p.ctx]
  IN IF Len(section) = 0
       THEN Result(dcSyntaxErr, p, <<dc_crit(p.handler, ctx, MsgNoBlock)>>)
     ELSE IF CharAt(line, 1) = "." /\ CharAt(line, 2) # NUL
       THEN Result(dcSyntaxErr, p, <<dc_crit(p.handler, ctx, MsgReserved)>>)
     ELSE Result(dcNoErr,
                 [p EXCEPT !.head[s][Len(section)] = dc_parser_block_append(@, stamped)],
                 <<>>)

\* a dc_parse_chunk that takes a full stop followed by text as mergeable text
ParseChunkNoReserved(p, line) ==
  LET section == ParserTail(p)
      ctx == <<p.ctx>>
      chunk ==
        IF CharAt(line, 1) = "." /\ CharAt(line, 2) = NUL
          THEN dc_parser_chunk_new(NULL, Overwritten)
          ELSE IF CharAt(line, 1) \in {" ", "\t"}
            THEN [dc_parser_chunk_new(From(line, 2), Overwritten) EXCEPT !.type = CHUNK_FIXED]
            ELSE dc_parser_chunk_new(From(line, 1), Overwritten)
      stamped == [chunk EXCEPT !.ctx = p.ctx]
  IN IF Len(section) = 0
       THEN Result(dcSyntaxErr, p, <<dc_crit(p.handler, ctx, MsgNoBlock)>>)
     ELSE Result(dcNoErr,
                 WithTail(p, [section EXCEPT ![Len(section)] =
                                dc_parser_block_append(@, stamped)]),
                 <<>>)

\* a dc_parse_chunk that, with no block in the tail section, opens a block
\* without a name for the chunk
ParseChunkOpensBlock(p, line) ==
  LET section == ParserTail(p)
      ctx == <<p.ctx>>
      chunk ==
        IF CharAt(line, 1) = "."
          THEN dc_parser_chunk_new(NULL, Overwritten)
          ELSE IF CharAt(line, 1) \in {" ", "\t"}
            THEN [dc_parser_chunk_new(From(line, 2), Overwritten) EXCEPT !.type = CHUNK_FIXED]
            ELSE dc_parser_chunk_new(From(line, 1), Overwritten)
      stamped == [chunk EXCEPT !.ctx = p.ctx]
  IN IF CharAt(line, 1) = "." /\ CharAt(line, 2) # NUL
       THEN Result(dcSyntaxErr, p, <<dc_crit(p.handler, ctx, MsgReserved)>>)
     ELSE IF Len(section) = 0
       THEN Result(dcNoErr,
                   WithTail(p, dc_parser_section_append(section,
                      dc_parser_block_append(dc_parser_block_new(<<>>), stamped))),
                   <<>>)
     ELSE Result(dcNoErr,
                 WithTail(p, [section EXCEPT ![Len(section)] =
                                dc_parser_block_append(@, stamped)]),
                 <<>>)

\* line starts with a blank; the chunk goes to parser->tail->tail, the block
\* dc_parser_section_append linked last into the tail section
dc_parse_chunk(p, line) ==
  LET section == ParserTail(p)
      ctx == <<p.ctx>>
      chunk ==
        IF CharAt(line, 1) = "."
          THEN dc_parser_chunk_new(NULL, Overwritten)
          ELSE IF CharAt(line, 1) \in {" ", "\t"}
            THEN [dc_parser_chunk_new(From(line, 2), Overwritten) EXCEPT !.type = CHUNK_FIXED]
            ELSE dc_parser_chunk_new(From(line, 1), Overwritten)
      stamped == [chunk EXCEPT !.ctx = p.ctx]
  IN IF Len(section) = 0
       THEN Result(dcSyntaxErr, p, <<dc_crit(p.handler, ctx, MsgNoBlock)>>)
     ELSE IF CharAt(line, 1) = "." /\ CharAt(line, 2) # NUL
       THEN Result(dcSyntaxErr, p, <<dc_crit(p.handler, ctx, MsgReserved)>>)
     ELSE Result(dcNoErr,
                 WithTail(p, [section EXCEPT ![Len(section)] =
                                dc_parser_block_append(@, stamped)]),
                 <<>>)

\* the scan of dc_parse_block for the first ':' at or after position i;
\* Len(line) + 1 when there is none
RECURSIVE ColonIndex(_, _)
ColonIndex(line, i) ==
  IF i > Len(line) \/ line[i] = ":" THEN i ELSE ColonIndex(line, i + 1)

\* a scan that never reports a missing ':': the whole line is the name
SplitNoCheck(line) ==
  LET k == ColonIndex(line, 1)
  IN [field |-> SubSeq(line, 1, k - 1),
      text |-> SubSeq(line, k + 1, Len(line)),
      before |-> NUL]

\* the copy of the line after the scan: field is the part before the first
\* ':' (overwritten by a terminator), text the part after it, before the
\* byte in front of text
ColonSplit(line) ==
  LET k == ColonIndex(line, 1)
  IN [field |-> SubSeq(line, 1, k - 1),
      text |-> SubSeq(line, k + 1, Len(line)),
      before |-> IF k <= Len(line) THEN NUL ELSE CharAt(line, Len(line) - 1)]

\* a field chunk that keeps the kind dc_parser_chunk_new gave it
FieldChunkUntyped(text) == dc_parser_chunk_new(text, Overwritten)

\* the chunk dc_parse_block makes of the value of a field line
FieldChunk(text) ==
  IF text = <<>>
    THEN [dc_parser_chunk_new(NULL, Overwritten) EXCEPT !.type = CHUNK_EMPTY]
    ELSE [dc_parser_chunk_new(text, Overwritten) EXCEPT !.type = CHUNK_FIXED]

\* a dc_parse_block that gives up on a repeated name once it has warned
ParseBlockDuplicateFails(p, line) ==
  LET split == ColonSplit(line)
      ctx == <<p.ctx>>
      section == ParserTail(p)
      text == dc_strchug(split.text)
      found == dc_parser_section_find(section, split.field)
      chunk == [FieldChunk(text) EXCEPT !.ctx = p.ctx]
  IN IF split.text = <<>> /\ split.before # NUL
       THEN Result(dcSyntaxErr, p, <<dc_crit(p.handler, ctx, MsgNoColon)>>)
     ELSE IF found # 0
       THEN Result(dcSyntaxErr, p, <<dc_warn(p.handler, ctx, MsgDuplicate)>>)
     ELSE Result(dcNoErr,
                 WithTail(p, dc_parser_section_append(section,
                    dc_parser_block_append(dc_parser_block_new(split.field), chunk))),
                 <<>>)

\* a dc_parse_block that looks the name up in the section before the tail
\* section as well, and takes a block found there for a duplicate
ParseBlockSearchesEarlier(p, line) ==
  LET split == ColonSplit(line)
      ctx == <<p.ctx>>
      n == Len(p.head)
      section == ParserTail(p)
      text == dc_strchug(split.text)
      found == dc_parser_section_find(section, split.field)
      before == IF n > 1 THEN dc_parser_section_find(p.head[n - 1], split.field) ELSE 0
      chunk == [FieldChunk(text) EXCEPT !.ctx = p.ctx]
  IN IF split.text = <<>> /\ split.before # NUL
       THEN Result(dcSyntaxErr, p, <<dc_crit(p.handler, ctx, MsgNoColon)>>)
     ELSE IF found # 0
       THEN Result(dcNoErr,
                   WithTail(p, [section EXCEPT ![found] =
                                  dc_parser_block_append(@, chunk)]),
                   <<dc_warn(p.handler, ctx, MsgDuplicate)>>)
     ELSE IF before # 0
       THEN Result(dcNoErr,
                   [p EXCEPT !.head[n - 1][before] = dc_parser_block_append(@, chunk)],
                   <<dc_warn(p.handler, ctx, MsgDuplicate)>>)
     ELSE Result(dcNoErr,
                 WithTail(p, dc_parser_section_append(section,
                    dc_parser_block_append(dc_parser_block_new(split.field), chunk))),
                 <<>>)

\* a dc_parse_block that takes a field without a name for a line without a
\* colon
ParseBlockNeedsName(p, line) ==
  LET split == ColonSplit(line)
      ctx == <<p.ctx>>
      section == ParserTail(p)
      text == dc_strchug(split.text)
      found == dc_parser_section_find(section, split.field)
      chunk == [FieldChunk(text) EXCEPT !.ctx = p.ctx]
  IN IF split.field = <<>> \/ (split.text = <<>> /\ split.before # NUL)
       THEN Result(dcSyntaxErr, p, <<dc_crit(p.handler, ctx, MsgNoColon)>>)
     ELSE IF found # 0
       THEN Result(dcNoErr,
                   WithTail(p, [section EXCEPT ![found] =
                                  dc_parser_block_append(@, chunk)]),
                   <<dc_warn(p.handler, ctx, MsgDuplicate)>>)
     ELSE Result(dcNoErr,
                 WithTail(p, dc_parser_section_append(section,
                    dc_parser_block_append(dc_parser_block_new(split.field), chunk))),
                 <<>>)

dc_parse_block(p, line) ==
  LET split == ColonSplit(line)
      ctx == <<p.ctx>>
      section == ParserTail(p)
      text == dc_strchug(split.text)
      found == dc_parser_section_find(section, split.field)
      chunk == [FieldChunk(text) EXCEPT !.ctx = p.ctx]
  IN IF split.text = <<>> /\ split.before # NUL
       THEN Result(dcSyntaxErr, p, <<dc_crit(p.handler, ctx, MsgNoColon)>>)
     ELSE IF found # 0
       THEN Result(dcNoErr,
                   WithTail(p, [section EXCEPT ![found] =
                                  dc_parser_block_append(@, chunk)]),
                   <<dc_warn(p.handler, ctx, MsgDuplicate)>>)
     ELSE Result(dcNoErr,
                 WithTail(p, dc_parser_section_append(section,
                    dc_parser_block_append(dc_parser_block_new(split.field), chunk))),
                 <<>>)

\* a dc_parser_read_line that opens a section at every empty line
ReadLineNoCollapse(p, line, len) ==
  IF p.head = <<>> THEN Result(dcParameterErr, p, <<>>)
  ELSE
    LET counted == [p EXCEPT !.ctx.line = @ + 1]
        chomped == dc_strchomp(line, len)
    IN IF CharAt(line, 0) = "#" THEN Result(dcNoErr, counted, <<>>)
       ELSE IF CharAt(chomped, 0) = NUL
         THEN Result(dcNoErr, dc_parser_append(counted, dc_parser_section_new), <<>>)
       ELSE IF CharAt(chomped, 0) \in {" ", "\t"}
         THEN dc_parse_chunk(counted, chomped)
       ELSE dc_parse_block(counted, chomped)

\* a dc_parser_read_line that takes a comment line for an empty line
ReadLineCommentEndsParagraph(p, line, len) ==
  IF p.head = <<>> THEN Result(dcParameterErr, p, <<>>)
  ELSE
    LET counted == [p EXCEPT !.ctx.line = @ + 1]
        section == ParserTail(counted)
        chomped == dc_strchomp(line, len)
    IN IF CharAt(line, 0) = "#" \/ CharAt(chomped, 0) = NUL
         THEN IF Len(section) = 0
                THEN Result(dcNoErr, counted,
                            <<dc_warn(counted.handler, <<counted.ctx>>, MsgBlank)>>)
                ELSE Result(dcNoErr,
                            dc_parser_append(counted, dc_parser_section_new), <<>>)
       ELSE IF CharAt(chomped, 0) \in {" ", "\t"}
         THEN dc_parse_chunk(counted, chomped)
       ELSE dc_parse_block(counted, chomped)

\* a dc_parser_read_line that counts a line only once it is known not to be
\* a comment
ReadLineCommentsUncounted(p, line, len) ==
  IF p.head = <<>> THEN Result(dcParameterErr, p, <<>>)
  ELSE
    LET counted == [p EXCEPT !.ctx.line = @ + 1]
        section == ParserTail(counted)
        chomped == dc_strchomp(line, len)
    IN IF CharAt(line, 0) = "#" THEN Result(dcNoErr, p, <<>>)
       ELSE IF CharAt(chomped, 0) = NUL
         THEN IF Len(section) = 0
                THEN Result(dcNoErr, counted,
                            <<dc_warn(counted.handler, <<counted.ctx>>, MsgBlank)>>)
                ELSE Result(dcNoErr,
                            dc_parser_append(counted, dc_parser_section_new), <<>>)
       ELSE IF CharAt(chomped, 0) \in {" ", "\t"}
         THEN dc_parse_chunk(counted, chomped)
       ELSE dc_parse_block(counted, chomped)

\* a dc_parser_read_line that looks for the leading blank of a continuation
\* line before it looks for an empty line
ReadLineBlankFirst(p, line, len) ==
  IF p.head = <<>> THEN Result(dcParameterErr, p, <<>>)
  ELSE
    LET counted == [p EXCEPT !.ctx.line = @ + 1]
        section == ParserTail(counted)
        chomped == dc_strchomp(line, len)
    IN IF CharAt(line, 0) = "#" THEN Result(dcNoErr, counted, <<>>)
       ELSE IF CharAt(line, 0) \in {" ", "\t"}
         THEN dc_parse_chunk(counted, chomped)
       ELSE IF CharAt(chomped, 0) = NUL
         THEN IF Len(section) = 0
                THEN Result(dcNoErr, counted,
                            <<dc_warn(counted.handler, <<counted.ctx>>, MsgBlank)>>)
                ELSE Result(dcNoErr,
                            dc_parser_append(counted, dc_parser_section_new), <<>>)
       ELSE dc_parse_block(counted, chomped)

dc_parser_read_line(p, line, len) ==
  IF p.head = <<>> THEN Result(dcParameterErr, p, <<>>)
  ELSE
    LET counted == [p EXCEPT !.ctx.line = @ + 1]
        section == ParserTail(counted)
        chomped == dc_strchomp(line, len)
    IN IF CharAt(line, 0) = "#" THEN Result(dcNoErr, counted, <<>>)
       ELSE IF CharAt(chomped, 0) = NUL
         THEN IF Len(section) = 0
                THEN Result(dcNoErr, counted,
                            <<dc_warn(counted.handler, <<counted.ctx>>, MsgBlank)>>)
                ELSE Result(dcNoErr,
                            dc_parser_append(counted, dc_parser_section_new), <<>>)
       ELSE IF CharAt(chomped, 0) \in {" ", "\t"}
         THEN dc_parse_chunk(counted, chomped)
       ELSE dc_parse_block(counted, chomped)

---------------------------------------------------------------------------
(* dc_parser_block_string *)

\* the process ends inside the call: assert(text != NULL) aborts it, and a
\* build without assertions passes the null pointer to strlen
CRASH == <<"CRASH">>

\* the text of the buffer after dc_string_append(buf, text)
dc_string_append(buf, text) ==
  IF buf = CRASH \/ text = NULL THEN CRASH ELSE buf \o text

\* the text of the buffer after dc_string_append_c(buf, c)
dc_string_append_c(buf, c) ==
  IF buf = CRASH THEN CRASH ELSE Append(buf, c)

\* the body of the loop over the chunks after the head chunk
RECURSIVE AppendChunks(_, _, _)
AppendChunks(buf, chunks, i) ==
  IF i > Len(chunks) THEN buf
  ELSE IF chunks[i].type = CHUNK_EMPTY
    THEN AppendChunks(
           dc_string_append_c(dc_string_append_c(dc_string_append_c(buf, " "), "."), "\n"),
           chunks, i + 1)
  ELSE AppendChunks(
         dc_string_append_c(
           dc_string_append(
             IF chunks[i].type = CHUNK_FIXED
               THEN dc_string_append_c(dc_string_append_c(buf, " "), " ")
               ELSE dc_string_append_c(buf, " "),
             chunks[i].text),
           "\n"),
         chunks, i + 1)

dc_parser_block_string(block) ==
  IF block.chunks = <<>> THEN CRASH
  ELSE
    LET named == dc_string_append_c(
                   dc_string_append_c(dc_string_append(<<>>, block.name), ":"), " ")
        first == dc_string_append_c(dc_string_append(named, block.chunks[1].text), "\n")
    IN AppendChunks(first, block.chunks, 2)

---------------------------------------------------------------------------
(* dc_parser_read_file on a file of known content *)

\* the lines getline hands out for a file of the given content: each runs
\* up to and including its line feed, the last one to the end of the file
\* (line is what was read of the first line before content starts)
getline(content, line) ==
  LET all == line \o content
      feeds == { k \in 1..Len(all) : all[k] = "\n" }
      n == Cardinality(feeds)
      Feed(i) == CHOOSE k \in feeds : Cardinality({ j \in feeds : j < k }) = i - 1
      Start(i) == IF i = 1 THEN 1 ELSE Feed(i - 1) + 1
      last == IF n = 0 THEN 0 ELSE Feed(n)
      whole == [i \in 1..n |-> SubSeq(all, Start(i), Feed(i))]
  IN IF last < Len(all)
       THEN Append(whole, SubSeq(all, last + 1, Len(all)))
       ELSE whole

\* the loop of dc_parser_read_file over the lines still to come; r holds rc
\* and the parser
RECURSIVE ReadLoop(_, _)
ReadLoop(r, lines) ==
  IF lines = <<>> THEN r
  ELSE LET next == dc_parser_read_line(r.parser, Head(lines), Len(Head(lines)))
       IN IF next.rc # dcNoErr
            THEN Result(next.rc, next.parser, r.out \o next.out)
            ELSE ReadLoop(Result(next.rc, next.parser, r.out \o next.out), Tail(lines))

\* dc_parser_read_file(parser, path) on a fresh parser and a file that opens
\* and holds at least one line
dc_parser_read_file(p, path, content) ==
  ReadLoop(Result(dcNoErr,
                  dc_parser_append([p EXCEPT !.ctx.path = path], dc_parser_section_new),
                  <<>>),
           getline(content, <<>>))

---------------------------------------------------------------------------
(* The caller: dc_parser_new, one dc_parser_read_file, dc_parser_block_string *)

\* the state a read does not touch, before any call; dc_parser_new sets the
\* head of the parser to NULL and leaves its tail as malloc handed it out
RestInit ==
  /\ calls = <<>>
  /\ blk = [name |-> NULL, head |-> Nil, tail |-> Nil]
  /\ mem = <<>>
  /\ seq = <<>>
  /\ freed = <<>>
  /\ handle = <<"parser">>
  /\ sec = [head |-> Nil, tail |-> Nil]
  /\ bmem = <<>>
  /\ valid = <<>>
  /\ ver = 1
  /\ control = 2
  /\ strs = <<dc_version_new, dc_control_new>>
  /\ vsets = <<>>
  /\ mapped = "none"
  /\ docs = <<>>
  /\ dstr = [text |-> NULL, len |-> 0, size |-> 0]
  /\ strops = <<>>
  /\ smem = <<>>
  /\ doc \in [head : {Nil}, tail : Indeterminate(smem)]

\* the parser dc_parser_new returns and the state of a read, before any call
ReadInit ==
  /\ parser = dc_parser_new
  /\ pc = "new"
  /\ rc = dcNoErr
  /\ status = "none"
  /\ file = <<>>
  /\ diag = <<>>
  /\ flat = <<>>
  /\ reread = "none"

Init ==
  /\ ReadInit
  /\ input = <<>>
  /\ RestInit

\* a failure of fopen that is reported with the parser's context, after the
\* first section was appended
OpenFailReportedInContext(path) ==
  /\ pc = "new"
  /\ parser.head = <<>>
  /\ parser' = dc_parser_append([parser EXCEPT !.ctx.path = path], dc_parser_section_new)
  /\ diag' = Append(diag, dc_crit(parser.handler, <<parser'.ctx>>, MsgOpen))
  /\ status' = dcFileErr
  /\ pc' = "returned"
  /\ LET l == LinkSections(doc, smem, 1)
     IN doc' = l.block /\ smem' = l.mem
  /\ UNCHANGED <<rc, file, flat, reread, rest>>

\* dc_parser_read_file up to the failure of fopen
ReadFileOpenFail(path) ==
  /\ pc = "new"
  /\ parser.head = <<>>
  /\ parser' = [parser EXCEPT !.ctx.path = path]
  /\ diag' = Append(diag, dc_crit(parser.handler, <<>>, MsgOpen))
  /\ status' = dcFileErr
  /\ pc' = "returned"
  /\ UNCHANGED <<rc, file, flat, reread, rest, owned>>

\* dc_parser_read_file up to the loop; rc holds whatever the stack held
ReadFileOpen(path) ==
  /\ pc = "new"
  /\ parser.head = <<>>
  /\ parser' = dc_parser_append([parser EXCEPT !.ctx.path = path], dc_parser_section_new)
  /\ rc' \in IndeterminateStatus
  /\ pc' = "reading"
  /\ LET l == LinkSections(doc, smem, 1)
     IN doc' = l.block /\ smem' = l.mem
  /\ UNCHANGED <<status, file, diag, flat, reread, rest>>

\* a read loop that goes on to the next line whatever the status
ReadFileLineNoBreak(line) ==
  /\ pc = "reading"
  /\ Len(file) < MaxLines
  /\ LET r == dc_parser_read_line(parser, line, Len(line))
     IN /\ parser' = r.parser
        /\ diag' = diag \o r.out
        /\ rc' = r.rc
        /\ LET l == LinkSections(doc, smem, Len(r.parser.head) - Len(parser.head))
           IN doc' = l.block /\ smem' = l.mem
  /\ file' = Append(file, line)
  /\ UNCHANGED <<pc, status, flat, reread, rest>>

\* one turn of the loop: getline hands out a line, dc_parser_read_line
\* handles it, and a status other than dcNoErr ends the loop and the call;
\* the section dc_parser_read_line appends, if any, is linked into the list
ReadFileLine(line) ==
  /\ pc = "reading"
  /\ Len(file) < MaxLines
  /\ LET r == dc_parser_read_line(parser, line, Len(line))
     IN /\ parser' = r.parser
        /\ diag' = diag \o r.out
        /\ rc' = r.rc
        /\ IF r.rc # dcNoErr
             THEN pc' = "returned" /\ status' = r.rc
             ELSE UNCHANGED <<pc, status>>
        /\ LET l == LinkSections(doc, smem, Len(r.parser.head) - Len(parser.head))
           IN doc' = l.block /\ smem' = l.mem
  /\ file' = Append(file, line)
  /\ UNCHANGED <<flat, reread, rest>>

\* getline returns -1: the loop ends and the call returns rc
ReadFileEOF ==
  /\ pc = "reading"
  /\ pc' = "returned"
  /\ status' = rc
  /\ UNCHANGED <<parser, rc, file, diag, flat, reread, rest, owned>>

\* the caller flattens block b of section s
BlockString(s, b) ==
  /\ pc = "returned"
  /\ flat = <<>>
  /\ reread = "none"
  /\ flat' = <<[section |-> s, block |-> b,
                text |-> dc_parser_block_string(parser.head[s][b])]>>
  /\ UNCHANGED <<parser, pc, rc, status, file, diag, reread, rest, owned>>

\* the process is ended by abort(): assert(parser->head == NULL) failed
SIGABRT == "SIGABRT"

\* a second dc_parser_read_file on a parser that holds a section: a build
\* with assertions aborts at assert(parser->head == NULL), a build with
\* NDEBUG returns dcParameterErr before it touches the parser
ReadFileAgain(path) ==
  /\ pc = "returned"
  /\ parser.head # <<>>
  /\ flat = <<>>
  /\ reread = "none"
  /\ reread' \in {SIGABRT, dcParameterErr}
  /\ UNCHANGED <<parser, pc, rc, status, file, diag, flat, rest, owned>>

Next ==
  \/ \E path \in Paths : ReadFileOpenFail(path)
  \/ \E path \in Paths : ReadFileOpen(path)
  \/ \E line \in Lines : ReadFileLine(line)
  \/ ReadFileEOF
  \/ \E s \in 1..Len(parser.head) : \E b \in 1..Len(parser.head[s]) : BlockString(s, b)
  \/ \E path \in Paths : ReadFileAgain(path)

Spec == Init /\ [][Next]_vars

---------------------------------------------------------------------------
(* The caller on whole files: handlers installed on the parser's handler     *)
(* record, then one dc_parser_read_file of a file made of the lines of the   *)
(* control file below                                                        *)

\* a control file of three fields, one of them continued
Example ==
  << <<"S", "o", "u", "r", "c", "e", ":", " ", "f", "o", "o", "\n">>,
     <<"M", "a", "i", "n", "t", "a", "i", "n", "e", "r", ":", " ", "A",
       " ", "<", "a", "@", "e", "x", "a", "m", "p", "l", "e", ".", "c",
       "o", "m", ">", "\n">>,
     <<" ", "c", "o", "n", "t", "i", "n", "u", "a", "t", "i", "o", "n",
       " ", "l", "i", "n", "e", "\n">>,
     <<" ", ".", "\n">>,
     <<"S", "e", "c", "t", "i", "o", "n", ":", " ", "l", "i", "b", "s",
       "\n">> >>

ExampleLines == { Example[i] : i \in 1..Len(Example) }

\* the files of at least one and at most Len(Example) of these lines
ExampleFiles == UNION { [1..n -> ExampleLines] : n \in 1..Len(Example) }

\* the content of the file that holds the given lines
RECURSIVE Content(_)
Content(lines) ==
  IF lines = <<>> THEN <<>> ELSE Head(lines) \o Content(Tail(lines))

\* dc_error_handler_warn(parser->handler, warn)
HandlerWarn(warn) ==
  /\ pc = "new"
  /\ parser' = [parser EXCEPT !.handler = dc_error_handler_warn(@, warn)]
  /\ UNCHANGED <<pc, rc, status, file, diag, flat, reread, rest, owned>>

\* dc_error_handler_crit(parser->handler, crit)
HandlerCrit(crit) ==
  /\ pc = "new"
  /\ parser' = [parser EXCEPT !.handler = dc_error_handler_crit(@, crit)]
  /\ UNCHANGED <<pc, rc, status, file, diag, flat, reread, rest, owned>>

\* a whole dc_parser_read_file call on a file that opens; file takes the
\* lines the loop handled
ReadWholeFile(path, lines) ==
  /\ pc = "new"
  /\ parser.head = <<>>
  /\ LET r == dc_parser_read_file(parser, path, Content(lines))
     IN /\ parser' = r.parser
        /\ diag' = diag \o r.out
        /\ rc' = r.rc
        /\ status' = r.rc
        /\ file' = SubSeq(lines, 1, r.parser.ctx.line)
        /\ LET l == LinkSections(doc, smem, Len(r.parser.head))
           IN doc' = l.block /\ smem' = l.mem
  /\ pc' = "returned"
  /\ UNCHANGED <<flat, reread, rest>>

NextFiles ==
  \/ \E warn \in {NullHandler, CallerWarn} : HandlerWarn(warn)
  \/ \E crit \in {NullHandler, CallerCrit} : HandlerCrit(crit)
  \/ \E path \in Paths : ReadFileOpenFail(path)
  \/ \E path \in Paths : \E lines \in ExampleFiles : ReadWholeFile(path, lines)

SpecFiles == Init /\ [][NextFiles]_vars

---------------------------------------------------------------------------
(* Vocabulary of the properties, stated on the lines as the file holds them *)

\* the line without its trailing spaces, tabs, carriage returns and line feeds
Stripped(line) ==
  LET n == CHOOSE k \in 0..Len(line) :
             /\ k = 0 \/ line[k] \notin {" ", "\t", "\r", "\n"}
             /\ \A j \in (k + 1)..Len(line) : line[j] \in {" ", "\t", "\r", "\n"}
  IN SubSeq(line, 1, n)

\* the line without its leading spaces and tabs
LeftStripped(str) ==
  LET n == CHOOSE k \in 0..Len(str) :
             /\ k = Len(str) \/ str[k + 1] \notin {" ", "\t"}
             /\ \A j \in 1..k : str[j] \in {" ", "\t"}
  IN SubSeq(str, n + 1, Len(str))

IsComment(line) == line # <<>> /\ line[1] = "#"

IsBlank(line) == ~IsComment(line) /\ Stripped(line) = <<>>

IsContinuation(line) ==
  ~IsComment(line) /\ Stripped(line) # <<>> /\ Stripped(line)[1] \in {" ", "\t"}

\* neither blank, nor a comment, nor a continuation
IsFieldLike(line) ==
  ~IsComment(line) /\ Stripped(line) # <<>> /\ Stripped(line)[1] \notin {" ", "\t"}

HasColon(line) == \E i \in 1..Len(line) : line[i] = ":"

IsFieldLine(line) == IsFieldLike(line) /\ HasColon(line)

\* the position of the first colon of a line that has one
FirstColon(line) ==
  CHOOSE i \in 1..Len(line) : line[i] = ":" /\ \A j \in 1..(i - 1) : line[j] # ":"

\* the name of a field line: the text before its first colon
FieldName(line) == SubSeq(line, 1, FirstColon(line) - 1)

\* the value of a field line: the text after its first colon, trimmed
FieldValue(line) ==
  LeftStripped(Stripped(SubSeq(line, FirstColon(line) + 1, Len(line))))

LowerCase(str) == [i \in 1..Len(str) |-> ToLower(str[i])]

\* a step in which the read loop handled one more line of the file
LineHandled == Len(file') = Len(file) + 1

\* the line that step handled, and its 1-based number
HandledLine == file'[Len(file')]

\* the invocations of the handlers made by that step
Emitted == SubSeq(diag', Len(diag) + 1, Len(diag'))

\* the number of blocks of the section the engine is filling
OpenBlocks(p) == Len(ParserTail(p))

---------------------------------------------------------------------------
(* C1 *)

\* C1: in every state, no section of the document holds two blocks whose
\* names are equal when upper and lower case are not told apart; a field
\* line whose name matches a block of the current section adds no block.
C1_NoTwoBlocksOfOneName ==
  \A s \in 1..Len(parser.head) :
    \A i, j \in 1..Len(parser.head[s]) :
      i # j => LowerCase(parser.head[s][i].name) # LowerCase(parser.head[s][j].name)

\* a field name was read a second time, in another case, into one section
C1_Witness ==
  /\ pc = "reading"
  /\ Len(file) = 2
  /\ file[1] = <<"A", ":", "x", "\n">>
  /\ file[2] = <<"a", ":", "\t", "y", ":", " ", "\n">>
  /\ Len(parser.head) = 1
  /\ Len(parser.head[1]) = 1
  /\ Len(parser.head[1][1].chunks) = 2

---------------------------------------------------------------------------
(* C2 *)

\* the chunk stamped with line i sits in section s
InSection(s, i) ==
  \E b \in 1..Len(parser.head[s]) :
    \E c \in 1..Len(parser.head[s][b].chunks) : parser.head[s][b].chunks[c].ctx.line = i

\* the field line a chunk-producing line belongs to: the line itself when it
\* is a field line, else the nearest field line before it
OwnerLine(i) ==
  IF IsFieldLine(file[i]) THEN i
  ELSE CHOOSE j \in 1..i :
         /\ IsFieldLine(file[j])
         /\ \A k \in (j + 1)..i : ~IsFieldLine(file[k])

\* how often the name n is given by a field line of section s
Occurrences(s, n) ==
  Cardinality({ j \in 1..Len(file) :
                  /\ IsFieldLine(file[j])
                  /\ InSection(s, j)
                  /\ LowerCase(FieldName(file[j])) = n })

\* C2: for every field name that occurs more than once in a section, the
\* chunks of its occurrences (the value of each such field line and the
\* continuation lines that follow it) are all in the one block of that name,
\* in file order, also when a field of another name lies between two
\* occurrences.
C2_DuplicateChunksInFirstBlock ==
  \A s \in 1..Len(parser.head) :
    \A b \in 1..Len(parser.head[s]) :
      LET chunks == parser.head[s][b].chunks
      IN /\ \A c \in 1..Len(chunks) :
              LET n == LowerCase(FieldName(file[OwnerLine(chunks[c].ctx.line)]))
              IN Occurrences(s, n) >= 2 => LowerCase(parser.head[s][b].name) = n
         /\ \A c, d \in 1..Len(chunks) :
              c < d => chunks[c].ctx.line < chunks[d].ctx.line

---------------------------------------------------------------------------
(* C3 *)

\* the number of blank lines the file ends with
RECURSIVE TrailingBlanks(_)
TrailingBlanks(f) ==
  IF f # <<>> /\ IsBlank(f[Len(f)])
    THEN 1 + TrailingBlanks(SubSeq(f, 1, Len(f) - 1))
    ELSE 0

\* the handler invocations that carry the context of a line after line r
DiagAfter(r) ==
  SelectSeq(diag, LAMBDA d : d.ctx # <<>> /\ d.ctx[1].line > r)

\* a run of k blank lines that follows a line which left a block in its
\* section: one section was opened after that line, it is still empty, and
\* the run gave k - 1 warnings and nothing else
BlankRunCollapsed ==
  LET k == TrailingBlanks(file)
      r == Len(file) - k
  IN k >= 1 /\ r >= 1 /\ (IsFieldLike(file[r]) \/ IsContinuation(file[r])) =>
       /\ Len(parser.head) >= 2
       /\ OpenBlocks(parser) = 0
       /\ InSection(Len(parser.head) - 1, r)
       /\ Len(DiagAfter(r)) = k - 1
       /\ \A i \in 1..(k - 1) :
            /\ DiagAfter(r)[i].sev = "warn"
            /\ DiagAfter(r)[i].msg = MsgBlank
            /\ DiagAfter(r)[i].ctx[1].line = r + 1 + i

\* C3: a blank line read while the current section holds a block opens one
\* new section and warns of nothing; a blank line read while the current
\* section holds no block opens no section and gives one 'multiple blank
\* lines' warning; so a run of k blank lines after a section with a block
\* opens exactly one section and gives exactly k - 1 warnings.
C3_BlankLinesCollapse ==
  [][ LineHandled /\ IsBlank(HandledLine) =>
           /\ rc' = dcNoErr
           /\ IF OpenBlocks(parser) = 0
                THEN /\ parser'.head = parser.head
                     /\ Len(Emitted) = 1
                     /\ Emitted[1].sev = "warn"
                     /\ Emitted[1].msg = MsgBlank
                ELSE /\ parser'.head = Append(parser.head, <<>>)
                     /\ Emitted = <<>>
           /\ BlankRunCollapsed'
    ]_vars

\* a field, two empty lines, a field: two sections and one warning
C3_Witness ==
  /\ file = << <<"A", ":", "x", "\n">>, <<"\n">>, <<"\n">>, <<"B", ":", "\n">> >>
  /\ Len(parser.head) = 2
  /\ Len(parser.head[1]) = 1
  /\ Len(parser.head[2]) = 1
  /\ Len(diag) = 1
  /\ diag[1].msg = MsgBlank
  /\ rc = dcNoErr

---------------------------------------------------------------------------
(* C4 *)

\* the last chunk of block b of the section the engine is filling
TailChunk(p, b) ==
  LET chunks == ParserTail(p)[b].chunks IN chunks[Len(chunks)]

\* the step appended the chunk of the given kind and text at the tail of
\* block b of the current section and changed nothing else of the document
AppendedTo(b, type, text) ==
  /\ b \in 1..OpenBlocks(parser')
  /\ ParserTail(parser')[b].chunks # <<>>
  /\ TailChunk(parser', b).type = type
  /\ TailChunk(parser', b).text = text
  /\ b <= OpenBlocks(parser)
  /\ parser'.head =
       [parser.head EXCEPT ![Len(parser.head)][b].chunks =
                             Append(@, TailChunk(parser', b))]

\* C4: for a continuation line read while a block is open: second character
\* '.' and nothing after it gives an Empty chunk without text; second
\* character space or tab gives a Fixed chunk whose text is the line from the
\* third character on; any other second character gives a Merge chunk whose
\* text is the line from the second character on; the chunk is appended at
\* the tail of the open block (the last block of the current section).
C4_ContinuationChunk ==
  [][ LineHandled /\ IsContinuation(HandledLine) /\ OpenBlocks(parser) > 0 =>
        LET l == Stripped(HandledLine)
            open == OpenBlocks(parser)
        IN /\ l[2] = "." /\ Len(l) = 2 =>
                rc' = dcNoErr /\ AppendedTo(open, CHUNK_EMPTY, NULL)
           /\ l[2] \in {" ", "\t"} =>
                rc' = dcNoErr /\ AppendedTo(open, CHUNK_FIXED, SubSeq(l, 3, Len(l)))
           /\ l[2] \notin {".", " ", "\t"} =>
                rc' = dcNoErr /\ AppendedTo(open, CHUNK_MERGE, SubSeq(l, 2, Len(l)))
    ]_vars

\* a block holds a field value followed by a Fixed, a Merge and an Empty
\* continuation chunk
C4_Witness ==
  /\ Len(parser.head) = 1
  /\ Len(parser.head[1]) = 1
  /\ Len(parser.head[1][1].chunks) = 4
  /\ parser.head[1][1].chunks[2].type = CHUNK_FIXED
  /\ parser.head[1][1].chunks[2].text = <<"x">>
  /\ parser.head[1][1].chunks[3].type = CHUNK_MERGE
  /\ parser.head[1][1].chunks[3].text = <<"x">>
  /\ parser.head[1][1].chunks[4].type = CHUNK_EMPTY
  /\ parser.head[1][1].chunks[4].text = NULL

---------------------------------------------------------------------------
(* C5 *)

\* the step put the chunk of the given kind and text at the tail of a new
\* block of the given name, appended to the current section
AppendedToNew(name, type, text) ==
  LET b == OpenBlocks(parser) + 1
  IN /\ OpenBlocks(parser') = b
     /\ Len(parser'.head) = Len(parser.head)
     /\ ParserTail(parser')[b].name = name
     /\ Len(ParserTail(parser')[b].chunks) = 1
     /\ TailChunk(parser', b).type = type
     /\ TailChunk(parser', b).text = text
     /\ parser'.head =
          [parser.head EXCEPT ![Len(parser.head)] = Append(@, ParserTail(parser')[b])]

\* C5: for a field line, the name is the text before the first colon and the
\* value the text after it without leading and trailing white space; the
\* chunk appended for the line is Empty without text when the value is blank
\* and Fixed with the value as text otherwise, never Merge; it goes to the
\* block of that name, which is created when the section has none.
C5_FieldChunk ==
  [][ LineHandled /\ IsFieldLine(HandledLine) =>
        LET name == FieldName(HandledLine)
            value == FieldValue(HandledLine)
            type == IF value = <<>> THEN CHUNK_EMPTY ELSE CHUNK_FIXED
            text == IF value = <<>> THEN NULL ELSE value
            same == { b \in 1..OpenBlocks(parser) :
                        LowerCase(ParserTail(parser)[b].name) = LowerCase(name) }
        IN /\ rc' = dcNoErr
           /\ IF same = {}
                THEN AppendedToNew(name, type, text)
                ELSE \E b \in same : AppendedTo(b, type, text)
    ]_vars

\* a padded value with a colon in it was read for a name that was already
\* there, and a blank value for a new name
C5_Witness ==
  /\ Len(parser.head) = 1
  /\ Len(parser.head[1]) = 2
  /\ parser.head[1][1].name = <<"A">>
  /\ Len(parser.head[1][1].chunks) = 2
  /\ parser.head[1][1].chunks[2].type = CHUNK_FIXED
  /\ parser.head[1][1].chunks[2].text = <<"y", ":">>
  /\ parser.head[1][2].name = <<"B">>
  /\ parser.head[1][2].chunks[1].type = CHUNK_EMPTY
  /\ parser.head[1][2].chunks[1].text = NULL

---------------------------------------------------------------------------
(* C6 *)

\* the step made exactly one call of the crit handler, with message msg and
\* the context of the line it handled
OneCritical(msg) ==
  /\ Len(Emitted) = 1
  /\ Emitted[1].sev = "crit"
  /\ Emitted[1].fn = parser.handler.crit
  /\ Emitted[1].msg = msg
  /\ Emitted[1].ctx = << [path |-> parser.ctx.path, line |-> Len(file')] >>

\* C6: a line that is not blank, not a comment, does not start with a space
\* or tab and holds no colon makes the read return dcSyntaxErr, with one call
\* of the crit handler that carries the context of the line; the line gives
\* no block and no chunk, and the document built so far stays as it is.
C6_NoColonIsSyntaxError ==
  [][ LineHandled /\ IsFieldLike(HandledLine) /\ ~HasColon(HandledLine) =>
        /\ rc' = dcSyntaxErr
        /\ pc' = "returned"
        /\ status' = dcSyntaxErr
        /\ OneCritical(MsgNoColon)
        /\ parser'.head = parser.head
    ]_vars

\* the read stopped at a line without a colon, after it had built a block
C6_Witness ==
  /\ pc = "returned"
  /\ status = dcSyntaxErr
  /\ Len(file) = 2
  /\ file[2] = <<"x">>
  /\ Len(parser.head) = 1
  /\ Len(parser.head[1]) = 1
  /\ Len(parser.head[1][1].chunks) = 1
  /\ diag[Len(diag)].msg = MsgNoColon

---------------------------------------------------------------------------
(* C7 *)

\* C7: a continuation line read while the last section holds no block (at
\* the start of the file or right after a blank line opened a section)
\* returns dcSyntaxErr, is reported by one call of the crit handler with the
\* current context, and adds no chunk to any block of any section.
C7_ContinuationWithoutBlock ==
  [][ LineHandled /\ IsContinuation(HandledLine) /\ OpenBlocks(parser) = 0 =>
        /\ rc' = dcSyntaxErr
        /\ pc' = "returned"
        /\ status' = dcSyntaxErr
        /\ OneCritical(MsgNoBlock)
        /\ parser'.head = parser.head
    ]_vars

\* the read stopped at a continuation line that came right after the blank
\* line which closed a section holding a block
C7_Witness ==
  /\ pc = "returned"
  /\ status = dcSyntaxErr
  /\ Len(file) = 3
  /\ IsBlank(file[2])
  /\ IsContinuation(file[3])
  /\ Len(parser.head) = 2
  /\ Len(parser.head[1]) = 1
  /\ Len(parser.head[1][1].chunks) = 1
  /\ Len(parser.head[2]) = 0
  /\ diag[Len(diag)].msg = MsgNoBlock

---------------------------------------------------------------------------
(* C8 *)

\* C8: a continuation line whose second character is '.' with at least one
\* more character after the trailing white space is removed returns
\* dcSyntaxErr with one call of the crit handler and appends no chunk; with
\* nothing but trailing white space after the '.', and a block open, it is
\* accepted as an Empty chunk.
C8_FullStopLine ==
  [][ LineHandled /\ IsContinuation(HandledLine) /\ Stripped(HandledLine)[2] = "." =>
        IF Len(Stripped(HandledLine)) > 2
          THEN /\ rc' = dcSyntaxErr
               /\ pc' = "returned"
               /\ status' = dcSyntaxErr
               /\ Len(Emitted) = 1
               /\ Emitted[1].sev = "crit"
               /\ parser'.head = parser.head
          ELSE OpenBlocks(parser) > 0 =>
               /\ rc' = dcNoErr
               /\ Emitted = <<>>
               /\ AppendedTo(OpenBlocks(parser), CHUNK_EMPTY, NULL)
    ]_vars

\* a full stop followed by text stopped the read while a block was open,
\* after a lone full stop had been taken as an Empty chunk
C8_Witness ==
  /\ pc = "returned"
  /\ status = dcSyntaxErr
  /\ Len(file) = 3
  /\ file[2] = <<" ", ".", " ", "\n">>
  /\ file[3] = <<" ", ".", "x", "\n">>
  /\ Len(parser.head) = 1
  /\ Len(parser.head[1][1].chunks) = 2
  /\ parser.head[1][1].chunks[2].type = CHUNK_EMPTY
  /\ diag[Len(diag)].msg = MsgReserved

---------------------------------------------------------------------------
(* C9 *)

\* C9: when the handling of a line returns a status other than dcNoErr, the
\* call returns that status at once, with the document as the lines before
\* had built it and the line counter at the offending line; and once the
\* call has returned with a failure, no further line is handled: the lines
\* handed out, the line counter, the document and the status stay as they are.
C9_ReadStopsAtFailure ==
  [][ /\ LineHandled /\ rc' # dcNoErr =>
           /\ pc' = "returned"
           /\ status' = rc'
           /\ parser'.head = parser.head
           /\ parser'.ctx.line = Len(file')
      /\ pc = "returned" /\ status # dcNoErr =>
           /\ file' = file
           /\ parser'.ctx.line = parser.ctx.line
           /\ parser'.head = parser.head
           /\ status' = status
           /\ pc' = "returned"
    ]_vars

\* the read failed at the second line of a file that could hold more, and
\* the caller went on to use the document
C9_Witness ==
  /\ pc = "returned"
  /\ status = dcSyntaxErr
  /\ Len(file) = 2
  /\ Len(file) < MaxLines
  /\ parser.ctx.line = 2
  /\ Len(parser.head[1]) = 1
  /\ flat # <<>>

---------------------------------------------------------------------------
(* C10 *)

\* the kinds and texts of the chunks of a block, in order
KindsAndTexts(block) ==
  [c \in 1..Len(block.chunks) |->
     [type |-> block.chunks[c].type, text |-> block.chunks[c].text]]

\* the text parses to one section with one block that has the name, the
\* chunk kinds and the chunk texts of the given block
ParsesBackTo(text, block) ==
  LET again == dc_parser_read_file(dc_parser_new, <<"c">>, text)
  IN /\ again.rc = dcNoErr
     /\ again.out = <<>>
     /\ Len(again.parser.head) = 1
     /\ Len(again.parser.head[1]) = 1
     /\ again.parser.head[1][1].name = block.name
     /\ KindsAndTexts(again.parser.head[1][1]) = KindsAndTexts(block)

NoDuplicateWarning == \A i \in 1..Len(diag) : diag[i].msg # MsgDuplicate

\* C10: for every block the engine built in a successful read that gave no
\* duplicate warning, dc_parser_block_string yields a text, and reading that text
\* yields a block of the same name with the same chunk kinds and chunk texts
\* in the same order; this covers a block whose first chunk is Empty.
C10_RoundTrip ==
  \A i \in 1..Len(flat) :
    status = dcNoErr /\ NoDuplicateWarning =>
      /\ flat[i].text # CRASH
      /\ ParsesBackTo(flat[i].text, parser.head[flat[i].section][flat[i].block])

\* the same for the blocks whose first chunk holds a text
C10_RoundTripOfValuedBlocks ==
  \A i \in 1..Len(flat) :
    LET block == parser.head[flat[i].section][flat[i].block]
    IN status = dcNoErr /\ NoDuplicateWarning /\ block.chunks[1].text # NULL =>
         /\ flat[i].text # CRASH
         /\ ParsesBackTo(flat[i].text, block)

---------------------------------------------------------------------------
(* C11 *)

\* the output line of a chunk that is not the first of its block, without
\* its line feed
LineOfChunk(chunk) ==
  CASE chunk.type = CHUNK_EMPTY -> <<" ", ".">>
    [] chunk.type = CHUNK_MERGE -> <<" ">> \o chunk.text
    [] chunk.type = CHUNK_FIXED -> <<" ", " ">> \o chunk.text

\* the output lines of the chunks from the i-th on, each with its line feed
RECURSIVE LaterLines(_, _)
LaterLines(chunks, i) ==
  IF i > Len(chunks) THEN <<>>
  ELSE LineOfChunk(chunks[i]) \o <<"\n">> \o LaterLines(chunks, i + 1)

\* the value of a chunk: its text, nothing for a chunk without text
ValueOf(chunk) == IF chunk.text = NULL THEN <<>> ELSE chunk.text

\* the text the block is to be flattened to
TextOfBlock(block) ==
  block.name \o <<":", " ">> \o ValueOf(block.chunks[1]) \o <<"\n">>
    \o LaterLines(block.chunks, 2)

\* the number of line feeds of a text
NewLines(text) == Cardinality({ k \in 1..Len(text) : text[k] = "\n" })

\* C11: dc_parser_block_string on a block with at least one chunk yields the
\* block name, ": ", the value of the first chunk and a line feed, then for
\* each later chunk in list order one line: " ." for an Empty chunk, one
\* space and the text for a Merge chunk, two spaces and the text for a Fixed
\* chunk; the output has as many lines as the block has chunks.
C11_BlockStringFormat ==
  \A i \in 1..Len(flat) :
    LET block == parser.head[flat[i].section][flat[i].block]
    IN /\ flat[i].text = TextOfBlock(block)
       /\ NewLines(flat[i].text) = Len(block.chunks)

\* the same for the blocks whose first chunk holds a text
C11_FormatOfValuedBlocks ==
  \A i \in 1..Len(flat) :
    LET block == parser.head[flat[i].section][flat[i].block]
    IN block.chunks[1].text # NULL =>
         /\ flat[i].text = TextOfBlock(block)
         /\ NewLines(flat[i].text) = Len(block.chunks)

\* a block of a value, a Fixed, a Merge and an Empty chunk was flattened
C11_ValuedWitness ==
  /\ flat # <<>>
  /\ flat[1].text = <<"A", ":", " ", "x", "\n", " ", " ", "x", "\n",
                      " ", "x", "\n", " ", ".", "\n">>

---------------------------------------------------------------------------
(* C12 *)

\* the numbers of the lines of the file that are field lines
FieldLines == { i \in 1..Len(file) : IsFieldLine(file[i]) }

\* C12: when a read returns dcNoErr for a file that has no blank line, no
\* continuation line and exactly one field line, the document holds exactly
\* one section with exactly one block with exactly one chunk; the block has
\* the name of the field, and the chunk is Empty when the value is blank and
\* Fixed with the value as text otherwise.
C12_OneFieldOneChunk ==
  /\ pc = "returned"
  /\ status = dcNoErr
  /\ \A i \in 1..Len(file) : ~IsBlank(file[i]) /\ ~IsContinuation(file[i])
  /\ Cardinality(FieldLines) = 1
  => LET line == file[CHOOSE i \in FieldLines : TRUE]
     IN /\ Len(parser.head) = 1
        /\ Len(parser.head[1]) = 1
        /\ parser.head[1][1].name = FieldName(line)
        /\ Len(parser.head[1][1].chunks) = 1
        /\ parser.head[1][1].chunks[1].type =
             (IF FieldValue(line) = <<>> THEN CHUNK_EMPTY ELSE CHUNK_FIXED)
        /\ parser.head[1][1].chunks[1].text =
             (IF FieldValue(line) = <<>> THEN NULL ELSE FieldValue(line))

\* a file of a comment and one field line with a padded value was read
C12_Witness ==
  /\ pc = "returned"
  /\ status = dcNoErr
  /\ file = << <<"#", "c", "\n">>, <<"a", ":", "\t", "y", ":", " ", "\n">> >>
  /\ Len(parser.head) = 1
  /\ Len(parser.head[1]) = 1
  /\ parser.head[1][1].chunks = << [text |-> <<"y", ":">>, type |-> CHUNK_FIXED,
                                    ctx |-> [path |-> <<"c">>, line |-> 2]] >>

---------------------------------------------------------------------------
(* C13 *)

\* the kinds and texts of the chunks of the block of the given name in the
\* only section of the document
ChunksOf(b) == KindsAndTexts(parser.head[1][b])

\* C13: the read of the five lines "Source: foo", "Maintainer: A
\* <a@example.com>", " continuation line", " .", "Section: libs" returns
\* dcNoErr and calls no handler; the document holds one section with the
\* three blocks Source, Maintainer, Section in this order, and the chunks of
\* Maintainer are Fixed "A <a@example.com>", Merge "continuation line", Empty.
C13_Example ==
  pc = "returned" /\ file = Example =>
    /\ status = dcNoErr
    /\ diag = <<>>
    /\ Len(parser.head) = 1
    /\ Len(parser.head[1]) = 3
    /\ parser.head[1][1].name = <<"S", "o", "u", "r", "c", "e">>
    /\ parser.head[1][2].name = <<"M", "a", "i", "n", "t", "a", "i", "n", "e", "r">>
    /\ parser.head[1][3].name = <<"S", "e", "c", "t", "i", "o", "n">>
    /\ ChunksOf(1) = << [type |-> CHUNK_FIXED, text |-> <<"f", "o", "o">>] >>
    /\ ChunksOf(2) =
         << [type |-> CHUNK_FIXED, text |-> SubSeq(Example[2], 13, Len(Example[2]) - 1)],
            [type |-> CHUNK_MERGE, text |-> SubSeq(Example[3], 2, Len(Example[3]) - 1)],
            [type |-> CHUNK_EMPTY, text |-> NULL] >>
    /\ ChunksOf(3) = << [type |-> CHUNK_FIXED, text |-> <<"l", "i", "b", "s">>] >>

\* the five lines were read to the end
C13_Witness ==
  /\ pc = "returned"
  /\ file = Example
  /\ parser.ctx.line = 5
  /\ status = dcNoErr

---------------------------------------------------------------------------
(* C14 *)

\* the field lines whose name was given before by a field line of the same
\* section, that is with no blank line between the two
DuplicateLines ==
  LET fields == FieldLines
      blanks == { k \in 1..Len(file) : IsBlank(file[k]) }
      name == [i \in fields |-> LowerCase(FieldName(file[i]))]
  IN { j \in fields :
         \E i \in fields :
           /\ i < j
           /\ name[i] = name[j]
           /\ \A k \in (i + 1)..(j - 1) : k \notin blanks }

\* the handler invocations that carry the 'duplicate field' message
DuplicateWarnings == SelectSeq(diag, LAMBDA d : d.msg = MsgDuplicate)

\* C14: the 'duplicate field' message goes to the warn handler exactly once
\* for each field line whose name already names a block of the current
\* section, with the context of that line, and never for a field line whose
\* name is new in its section; n occurrences of a name in one section give
\* n - 1 warnings.
C14_OneWarningPerDuplicate ==
  LET w == DuplicateWarnings
      repeats == DuplicateLines
  IN /\ Len(w) = Cardinality(repeats)
     /\ \A i \in 1..Len(w) :
          /\ w[i].sev = "warn"
          /\ w[i].fn = parser.handler.warn
          /\ w[i].ctx # <<>>
          /\ w[i].ctx[1].line \in repeats
     /\ \A i, j \in 1..Len(w) : i < j => w[i].ctx[1].line < w[j].ctx[1].line

\* a name was given three times in one section, with another name before
\* the third: two warnings
C14_Witness ==
  /\ file = << <<"A", ":", "x", "\n">>, <<"a", ":", "\t", "y", ":", " ", "\n">>,
               <<"B", ":", "\n">>, <<"A", ":", "x", "\n">> >>
  /\ DuplicateLines = {2, 4}
  /\ Len(DuplicateWarnings) = 2
  /\ Len(diag) = 2

---------------------------------------------------------------------------
(* C15 *)

\* a field line before line i has opened a block in the section of line i
Opened(f, i) ==
  \E j \in 1..(i - 1) :
    IsFieldLine(f[j]) /\ \A k \in (j + 1)..(i - 1) : ~IsBlank(f[k])

\* a continuation line that is a full stop followed by text
IsReserved(line) ==
  IsContinuation(line) /\ Stripped(line)[2] = "." /\ Len(Stripped(line)) > 2

\* a file with no syntax error: its only irregularities can be repeated
\* field names and repeated blank lines
Regular(f) ==
  \A i \in 1..Len(f) :
    \/ IsComment(f[i])
    \/ IsBlank(f[i])
    \/ IsFieldLine(f[i])
    \/ IsContinuation(f[i]) /\ Opened(f, i) /\ ~IsReserved(f[i])

\* the warn handler was called
Warned(d) == \E i \in 1..Len(d) : d[i].sev = "warn"

\* the sequence without the elements at the positions in skip
RECURSIVE Without(_, _, _)
Without(f, skip, i) ==
  IF i > Len(f) THEN <<>>
  ELSE (IF i \in skip THEN <<>> ELSE <<f[i]>>) \o Without(f, skip, i + 1)

\* the blank lines that open no section: no block is open where they stand
RepeatedBlanks(f) == { i \in 1..Len(f) : IsBlank(f[i]) /\ ~Opened(f, i) }

\* a document without the contexts of its chunks
Shape(head) ==
  [s \in 1..Len(head) |->
     [b \in 1..Len(head[s]) |->
        [name |-> head[s][b].name, chunks |-> KindsAndTexts(head[s][b])]]]

\* the read of the given lines by a parser with the given handlers
ReadOf(handler, lines) ==
  dc_parser_read_file([dc_parser_new EXCEPT !.handler = handler], <<"c">>, Content(lines))

\* the document is the one the lines give without their repeated blank
\* lines, and the one they give when the caller's handlers take the warnings
AsIfNotWarned ==
  /\ Shape(parser.head) =
       Shape(ReadOf(parser.handler, Without(file, RepeatedBlanks(file), 1)).parser.head)
  /\ LET other == ReadOf([warn |-> CallerWarn, crit |-> CallerCrit], file)
     IN /\ other.parser.head = parser.head
        /\ other.rc = rc
        /\ Len(other.out) = Len(diag)

\* C15: a warning neither ends the read nor changes its status: once a
\* warning was emitted, and as long as the lines read have no irregularity
\* but repeated field names and repeated blank lines, every line handed out
\* was handled with dcNoErr and nothing but warnings was emitted; the read
\* is still going on or has returned dcNoErr; and after each line the
\* document is the one the lines give when no warning is emitted for them.
C15_WarningsDoNotHalt ==
  Warned(diag) /\ Regular(file) =>
    /\ rc = dcNoErr
    /\ pc \in {"reading", "returned"}
    /\ pc = "returned" => status = dcNoErr
    /\ parser.ctx.line = Len(file)
    /\ \A i \in 1..Len(diag) : diag[i].sev = "warn"
    /\ pc = "reading" => AsIfNotWarned

\* a read went on to the end after a repeated blank line and a repeated
\* field name: both warnings, lines after each of them, success
C15_Witness ==
  /\ pc = "returned"
  /\ status = dcNoErr
  /\ file = << <<"\n">>, <<"A", ":", "x", "\n">>, <<"A", ":", "x", "\n">>,
               <<" ", "x", "\n">> >>
  /\ Len(diag) = 2
  /\ diag[1].msg = MsgBlank
  /\ diag[2].msg = MsgDuplicate
  /\ Len(parser.head[1][1].chunks) = 3

---------------------------------------------------------------------------
(* C16 *)

\* the handler records a caller can have installed
HandlerRecords ==
  [warn : {dc_emit_warning, CallerWarn}, crit : {dc_emit_error, CallerCrit}]

\* the invocations of the crit handler
Criticals == SelectSeq(diag, LAMBDA d : d.sev = "crit")

\* the line the read failed at fails with the same status, after exactly one
\* call of the installed crit handler, whichever handlers are installed
FailsWhicheverHandler ==
  \A h \in HandlerRecords :
    LET line == file[Len(file)]
        before == [parser EXCEPT !.ctx.line = @ - 1, !.handler = h]
        r == dc_parser_read_line(before, line, Len(line))
    IN /\ r.rc = status
       /\ Len(r.out) = 1
       /\ r.out[1].sev = "crit"
       /\ r.out[1].fn = h.crit

\* C16: every dc_parser_read_file call that returns dcSyntaxErr or
\* dcFileErr has called the parser's crit handler exactly once before, as
\* the last handler call of the read; the failing line gives the same status
\* whichever handlers are installed; and a call that returns dcNoErr has
\* not called the crit handler.
C16_CriticalWithFailure ==
  pc = "returned" =>
    /\ status = dcNoErr => Criticals = <<>>
    /\ status \in {dcSyntaxErr, dcFileErr} =>
         /\ Len(Criticals) = 1
         /\ diag[Len(diag)].sev = "crit"
         /\ diag[Len(diag)].fn = parser.handler.crit
    /\ status = dcSyntaxErr => FailsWhicheverHandler

\* a file without lines was read: the status returned is that of a syntax
\* error, and no handler was called
C16_NoLinesWitness ==
  /\ pc = "returned"
  /\ file = <<>>
  /\ parser.head = << <<>> >>
  /\ status = dcSyntaxErr
  /\ diag = <<>>

\* what holds of the code: the above for every call that failed to open its
\* file or handled at least one line, which returns no other status than
\* dcNoErr, dcSyntaxErr and dcFileErr
C16_CriticalWhenLineHandled ==
  pc = "returned" /\ (file # <<>> \/ parser.head = <<>>) =>
    /\ status \in {dcNoErr, dcSyntaxErr, dcFileErr}
    /\ status = dcNoErr => Criticals = <<>>
    /\ status # dcNoErr =>
         /\ Len(Criticals) = 1
         /\ diag[Len(diag)].sev = "crit"
         /\ diag[Len(diag)].fn = parser.handler.crit
    /\ status = dcSyntaxErr => FailsWhicheverHandler

\* a read that had warned of a blank line failed at a line without a colon
C16_FailureWitness ==
  /\ pc = "returned"
  /\ status = dcSyntaxErr
  /\ file = << <<"\n">>, <<"x">> >>
  /\ Len(diag) = 2
  /\ diag[1].sev = "warn"
  /\ diag[2].sev = "crit"
  /\ diag[2].fn = dc_emit_error

---------------------------------------------------------------------------
(* C17 *)

\* C17: a dc_parser_read_file call on a parser that already holds a section,
\* whether the first read succeeded or failed, returns dcParameterErr to the
\* caller and leaves the sections, blocks, chunks, the context path and the
\* line counter as they were.
C17_SecondReadIsParameterErr ==
  [][ reread' # reread =>
        /\ reread' = dcParameterErr
        /\ parser' = parser
    ]_vars

\* in a build without assertions the second call on a parser that a read
\* has filled returned dcParameterErr
C17_ReturnedWitness ==
  /\ reread = dcParameterErr
  /\ status = dcNoErr
  /\ Len(parser.head) = 2

---------------------------------------------------------------------------
(* C18 *)

\* the call returned without entering the read loop: fopen failed
OpenFailed == pc = "new" /\ pc' = "returned"

\* C18: when the file cannot be opened, dc_parser_read_file returns
\* dcFileErr, which is not the status of a syntax error; it calls the crit
\* handler exactly once, with a null context, and no other handler; the
\* parser has no section and its line counter is 0.
C18_OpenFailure ==
  [][ OpenFailed =>
        /\ status' = dcFileErr
        /\ dcFileErr # dcSyntaxErr
        /\ Len(Emitted) = 1
        /\ Emitted[1].sev = "crit"
        /\ Emitted[1].fn = parser.handler.crit
        /\ Emitted[1].msg = MsgOpen
        /\ Emitted[1].ctx = <<>>
        /\ parser'.head = <<>>
        /\ parser'.ctx.line = 0
        /\ file' = <<>>
    ]_vars

\* the open failed: one critical invocation without context, no section
C18_Witness ==
  /\ pc = "returned"
  /\ status = dcFileErr
  /\ parser.head = <<>>
  /\ parser.ctx.line = 0
  /\ Len(diag) = 1
  /\ diag[1].sev = "crit"
  /\ diag[1].ctx = <<>>

---------------------------------------------------------------------------
(* C19 *)

\* the numbers of the comment lines of a file
CommentLines(f) == { i \in 1..Len(f) : IsComment(f[i]) }

\* the handler invocations without their contexts
Messages(d) == [i \in 1..Len(d) |-> [sev |-> d[i].sev, msg |-> d[i].msg]]

\* C19: a line whose first character is '#' creates, closes and changes no
\* section, block or chunk and emits no diagnostic: after every line of a
\* read that is going on, the document and the handler invocations are those
\* of the same lines without the comment lines, so a continuation line after
\* a comment goes to the block it would go to without the comment, and a
\* comment opens no section; the comment line is handled with dcNoErr.
C19_CommentChangesNothing ==
  pc = "reading" =>
    LET other == ReadOf(parser.handler, Without(file, CommentLines(file), 1))
    IN /\ Shape(parser.head) = Shape(other.parser.head)
       /\ Messages(diag) = Messages(other.out)
       /\ file # <<>> /\ IsComment(file[Len(file)]) => rc = dcNoErr

\* a comment stood between a field line and its continuation line, and
\* another between two field lines: one section, the continuation in place
C19_Witness ==
  /\ pc = "reading"
  /\ file = << <<"A", ":", "x", "\n">>, <<"#", "c", "\n">>, <<" ", "x", "\n">>,
               <<"#", "c", "\n">> >>
  /\ Len(parser.head) = 1
  /\ Len(parser.head[1]) = 1
  /\ Len(parser.head[1][1].chunks) = 2
  /\ diag = <<>>
  /\ parser.ctx.line = 4

---------------------------------------------------------------------------
(* C20 *)

\* the kind and text of the chunk a field line or a continuation line gives
ChunkOfLine(line) ==
  LET l == Stripped(line)
  IN IF IsFieldLine(line)
       THEN IF FieldValue(line) = <<>>
              THEN [type |-> CHUNK_EMPTY, text |-> NULL]
              ELSE [type |-> CHUNK_FIXED, text |-> FieldValue(line)]
     ELSE IF l[2] = "." THEN [type |-> CHUNK_EMPTY, text |-> NULL]
     ELSE IF l[2] \in {" ", "\t"}
       THEN [type |-> CHUNK_FIXED, text |-> SubSeq(l, 3, Len(l))]
     ELSE [type |-> CHUNK_MERGE, text |-> SubSeq(l, 2, Len(l))]

\* the chunks of a document, each with its place
ChunkPlaces(p) ==
  UNION { UNION { { <<s, b, c>> : c \in 1..Len(p.head[s][b].chunks) } :
                  b \in 1..Len(p.head[s]) } :
          s \in 1..Len(p.head) }

ChunkAt(p, at) == p.head[at[1]][at[2]].chunks[at[3]]

\* every chunk carries the path of the read and the number of a line that
\* was handed out, counted from 1 with comment and blank lines included, and
\* that line gives the chunk's kind and text; no two chunks carry one number
ChunksStamped(p, f) ==
  /\ \A at \in ChunkPlaces(p) :
       LET chunk == ChunkAt(p, at)
       IN /\ chunk.ctx.path = p.ctx.path
          /\ chunk.ctx.path \in Paths
          /\ chunk.ctx.line \in 1..Len(f)
          /\ IsFieldLine(f[chunk.ctx.line]) \/ IsContinuation(f[chunk.ctx.line])
          /\ [type |-> chunk.type, text |-> chunk.text] = ChunkOfLine(f[chunk.ctx.line])
  /\ Cardinality({ ChunkAt(p, at).ctx.line : at \in ChunkPlaces(p) }) =
       Cardinality(ChunkPlaces(p))
  /\ p.head # <<>> => p.ctx.line = Len(f)

\* C20: every chunk carries a context whose line is the 1-based number of
\* the physical line that produced it, comment lines and blank lines
\* counted, and whose path is the path given to the read; the context of a
\* chunk does not change when later lines are read.
C20_ChunkContext ==
  [][ /\ ChunksStamped(parser', file')
      /\ \A at \in ChunkPlaces(parser) :
           /\ at \in ChunkPlaces(parser')
           /\ ChunkAt(parser', at).ctx = ChunkAt(parser, at).ctx
    ]_vars

\* chunks of the lines 2 and 4 of a file whose lines 1 and 3 are a comment
\* and a blank line
C20_Witness ==
  /\ Len(file) = 4
  /\ IsComment(file[1])
  /\ IsBlank(file[3])
  /\ Len(parser.head) = 2
  /\ parser.head[1][1].chunks[1].ctx = [path |-> <<"c">>, line |-> 2]
  /\ Len(parser.head[2]) = 1
  /\ parser.head[2][1].chunks[1].ctx = [path |-> <<"c">>, line |-> 4]

---------------------------------------------------------------------------
(* The diagnostic facility on its own: the handlers of the parser's handler  *)
(* record are replaced and restored, and messages are emitted through it     *)

\* the number of dc_error_handler_warn and dc_error_handler_crit calls made
\* at most, and the number of messages emitted at most
MaxCalls == 3
MaxEmits == 2

\* what a caller can pass for the warn and for the crit handler
WarnArguments == {NullHandler, CallerWarn, OtherWarn}
CritArguments == {NullHandler, CallerCrit, OtherCrit}

\* dc_error_handler_warn(parser->handler, warn)
SetWarn(warn) ==
  /\ Len(calls) < MaxCalls
  /\ parser' = [parser EXCEPT !.handler = dc_error_handler_warn(@, warn)]
  /\ calls' = Append(calls, [slot |-> "warn", fn |-> warn])
  /\ UNCHANGED <<reading, blk, mem, seq, freed, handle, sectioning, mapping, owned, apart>>

\* dc_error_handler_crit(parser->handler, crit)
SetCrit(crit) ==
  /\ Len(calls) < MaxCalls
  /\ parser' = [parser EXCEPT !.handler = dc_error_handler_crit(@, crit)]
  /\ calls' = Append(calls, [slot |-> "crit", fn |-> crit])
  /\ UNCHANGED <<reading, blk, mem, seq, freed, handle, sectioning, mapping, owned, apart>>

\* dc_warn(parser->handler, NULL, ...)
EmitWarn ==
  /\ Len(diag) < MaxEmits
  /\ diag' = Append(diag, dc_warn(parser.handler, <<>>, MsgBlank))
  /\ UNCHANGED <<parser, pc, rc, status, file, flat, reread, rest, owned>>

\* dc_crit(parser->handler, NULL, ...)
EmitCrit ==
  /\ Len(diag) < MaxEmits
  /\ diag' = Append(diag, dc_crit(parser.handler, <<>>, MsgOpen))
  /\ UNCHANGED <<parser, pc, rc, status, file, flat, reread, rest, owned>>

NextHandlers ==
  \/ \E warn \in WarnArguments : SetWarn(warn)
  \/ \E crit \in CritArguments : SetCrit(crit)
  \/ EmitWarn
  \/ EmitCrit

SpecHandlers == Init /\ [][NextHandlers]_vars

---------------------------------------------------------------------------
(* C21 *)

\* what the last call for the slot passed; a null pointer when none was made
LastPassed(slot) ==
  LET made == { i \in 1..Len(calls) : calls[i].slot = slot }
  IN IF made = {} THEN NullHandler
     ELSE calls[CHOOSE i \in made : \A j \in made : j <= i].fn

\* C21: after any sequence of dc_error_handler_warn and dc_error_handler_crit
\* calls, the warn handler is dc_emit_warning when the last call for it
\* passed a null pointer or none was made, and the function the last call
\* passed otherwise; likewise the crit handler with dc_emit_error; no slot
\* holds a null pointer, and every message emitted went to a function.
C21_HandlerSlots ==
  /\ parser.handler.warn =
       (IF LastPassed("warn") = NullHandler THEN dc_emit_warning ELSE LastPassed("warn"))
  /\ parser.handler.crit =
       (IF LastPassed("crit") = NullHandler THEN dc_emit_error ELSE LastPassed("crit"))
  /\ parser.handler.warn # NullHandler
  /\ parser.handler.crit # NullHandler
  /\ \A i \in 1..Len(diag) : diag[i].fn # NullHandler

\* the crit handler was replaced twice and the warn handler restored: the
\* second replacement and the default are installed
C21_Witness ==
  /\ calls = << [slot |-> "crit", fn |-> CallerCrit],
                [slot |-> "crit", fn |-> OtherCrit],
                [slot |-> "warn", fn |-> NullHandler] >>
  /\ parser.handler = [warn |-> dc_emit_warning, crit |-> OtherCrit]
  /\ Len(diag) = 2

---------------------------------------------------------------------------
(* C22 *)

\* the chunks reachable from the document
Reachable(p) == { ChunkAt(p, at) : at \in ChunkPlaces(p) }

\* C22: every chunk reachable from the document, after any sequence of
\* lines, has a text exactly when its kind is not CHUNK_EMPTY, and every
\* text present is a non-empty string: no Fixed or Merge chunk is empty.
C22_TextIffNotEmpty ==
  \A chunk \in Reachable(parser) :
    /\ chunk.text # NULL <=> chunk.type # CHUNK_EMPTY
    /\ chunk.text # NULL => Len(chunk.text) > 0
    /\ chunk.type \in {CHUNK_EMPTY, CHUNK_FIXED, CHUNK_MERGE}

\* a document read from four lines that holds a chunk of every kind, one of
\* them made from a field with a blank value
C22_Witness ==
  /\ Len(file) = 4
  /\ { chunk.type : chunk \in Reachable(parser) } =
       {CHUNK_EMPTY, CHUNK_FIXED, CHUNK_MERGE}
  /\ \E at \in ChunkPlaces(parser) :
       at[3] = 1 /\ ChunkAt(parser, at).type = CHUNK_EMPTY
  /\ \E at \in ChunkPlaces(parser) :
       at[3] > 1 /\ ChunkAt(parser, at).type = CHUNK_EMPTY

---------------------------------------------------------------------------
(* C23 *)

\* the field lines of the file that were read into the document: all of
\* them but a last line that was refused
FieldLinesRead == { i \in FieldLines : i < Len(file) \/ rc = dcNoErr }

\* the blank lines that ended a section: those with a field line before
\* them and no blank line in between
SectionBreaks ==
  LET blanks == { j \in 1..Len(file) : IsBlank(file[j]) }
      fields == FieldLines
  IN { j \in blanks :
         \E k \in fields : k < j /\ \A m \in blanks : ~(k < m /\ m < j) }

\* the number of the section line i is read into: one more than the number
\* of section breaks before it
SectionOfLine(breaks, i) == 1 + Cardinality({ j \in breaks : j < i })

\* C23: in every state during and after a read, a section into which a
\* field line has been read has a block list that is not empty (it holds
\* the block of that field), and an empty section exists only as the last
\* section of the document: every section followed by another holds a block.
C23_EmptySectionOnlyLast ==
  /\ LET breaks == SectionBreaks
     IN \A i \in FieldLinesRead :
          LET s == SectionOfLine(breaks, i)
          IN /\ s \in 1..Len(parser.head)
             /\ parser.head[s] # <<>>
             /\ \E b \in 1..Len(parser.head[s]) :
                  strcasecmp(parser.head[s][b].name, FieldName(file[i]))
  /\ \A s \in 1..(Len(parser.head) - 1) : parser.head[s] # <<>>

\* a field, then two blank lines: the first section holds the field's
\* block, and the section that follows it is empty and is the last
C23_Witness ==
  /\ Len(file) = 3
  /\ FieldLinesRead = {1}
  /\ IsBlank(file[2]) /\ IsBlank(file[3])
  /\ Len(parser.head) = 2
  /\ parser.head[1] # <<>>
  /\ parser.head[2] = <<>>

---------------------------------------------------------------------------
(* The destructors; each is the sequence of the free() calls it makes. An    *)
(* allocation is named by what it holds and where the object is: the text    *)
(* and the object of chunk c of block b of section s are <<"text", s, b, c>> *)
(* and <<"chunk", s, b, c>>                                                  *)

RECURSIVE ConcatAll(_)
ConcatAll(seqs) ==
  IF seqs = <<>> THEN <<>> ELSE Head(seqs) \o ConcatAll(Tail(seqs))

\* a dc_parser_chunk_free that leaves the text allocated
ChunkFreeKeepsText(at, chunk) == << <<"chunk">> \o at >>

\* dc_parser_chunk_free on the chunk at the place at
dc_parser_chunk_free(at, chunk) ==
  (IF chunk.text # NULL THEN << <<"text">> \o at >> ELSE <<>>)
    \o << <<"chunk">> \o at >>

\* dc_parser_block_free on the block at the place at; chunks are the chunks
\* its loop meets from head on by following next, each with its place
dc_parser_block_free(at, name, chunks) ==
  (IF name # NULL THEN << <<"name">> \o at >> ELSE <<>>)
    \o ConcatAll([c \in 1..Len(chunks) |->
                   dc_parser_chunk_free(chunks[c].at, chunks[c].chunk)])
    \o << <<"block">> \o at >>

\* dc_parser_section_free on section s of the document
dc_parser_section_free(s, section) ==
  ConcatAll([b \in 1..Len(section) |->
              dc_parser_block_free(<<s, b>>, section[b].name,
                [c \in 1..Len(section[b].chunks) |->
                  [at |-> <<s, b, c>>, chunk |-> section[b].chunks[c]]])])
    \o << <<"section", s>> >>

dc_error_handler_free == << <<"handler">> >>

dc_parser_free(p) ==
  (IF p.ctx.path # NULL THEN << <<"path">> >> ELSE <<>>)
    \o dc_error_handler_free
    \o ConcatAll([s \in 1..Len(p.head) |-> dc_parser_section_free(s, p.head[s])])
    \o << <<"parser">> >>

---------------------------------------------------------------------------
(* The caller of the list operations and of the destructors: either a read   *)
(* and dc_parser_free, or a block of its own made with dc_parser_block_new,  *)
(* changed with dc_parser_block_append, dc_parser_block_prepend and          *)
(* dc_parser_block_delete and released with dc_parser_block_free             *)

\* the number of chunks made for the caller's block at most
MaxChunks == 3

\* the names dc_parser_block_new is given, and the texts dc_parser_chunk_new
BlockNames == {NULL, <<"A">>, <<"B">>}
ChunkTexts == {NULL, <<"x">>}

\* dc_parser_free(&parser) after the read has returned; parser keeps what
\* the object held when it was released
ParserFree ==
  /\ pc = "returned"
  /\ pc' = "freed"
  /\ freed' = freed \o dc_parser_free(parser)
  /\ handle' = NULL
  /\ UNCHANGED <<parser, rc, status, file, diag, flat, reread, calls, blk, mem, seq, sectioning, mapping, owned, apart>>

\* block = dc_parser_block_new(name)
BlockNew(name) ==
  /\ pc = "new"
  /\ pc' = "block"
  /\ blk' = [name |-> name, head |-> Nil, tail |-> Nil]
  /\ handle' = <<"block">>
  /\ UNCHANGED <<parser, rc, status, file, diag, flat, reread, calls, mem, seq, freed, sectioning, mapping, owned, apart>>

\* dc_parser_block_append(block, dc_parser_chunk_new(text))
ChunkAppend(text) ==
  /\ pc = "block"
  /\ Len(mem) < MaxChunks
  /\ \E was \in IndeterminateContext :
       LET a == Len(mem) + 1
           r == LinkAppend(blk, Append(mem, ChunkNode(text, was)), a)
       IN /\ blk' = r.block
          /\ mem' = r.mem
          /\ seq' = Append(seq, a)
  /\ UNCHANGED <<parser, reading, calls, freed, handle, sectioning, mapping, owned, apart>>

\* dc_parser_block_prepend(block, dc_parser_chunk_new(text))
ChunkPrepend(text) ==
  /\ pc = "block"
  /\ Len(mem) < MaxChunks
  /\ \E was \in IndeterminateContext :
       LET a == Len(mem) + 1
           r == LinkPrepend(blk, Append(mem, ChunkNode(text, was)), a)
       IN /\ blk' = r.block
          /\ mem' = r.mem
          /\ seq' = <<a>> \o seq
  /\ UNCHANGED <<parser, reading, calls, freed, handle, sectioning, mapping, owned, apart>>

\* dc_parser_block_delete(block, &chunk) for a chunk that is in the block
ChunkDelete(a) ==
  /\ pc = "block"
  /\ \E i \in 1..Len(seq) : seq[i] = a
  /\ LET r == Unlink(blk, mem, a)
     IN /\ blk' = r.block
        /\ mem' = r.mem
  /\ freed' = freed \o dc_parser_chunk_free(<<a>>, mem[a].chunk)
  /\ seq' = SelectSeq(seq, LAMBDA x : x # a)
  /\ UNCHANGED <<parser, reading, calls, handle, sectioning, mapping, owned, apart>>

\* dc_parser_block_free(&block)
BlockFree ==
  /\ pc = "block"
  /\ pc' = "released"
  /\ LET met == Forward(mem, blk.head, Len(mem) + 1)
     IN freed' = freed \o
          dc_parser_block_free(<<>>, blk.name,
            [i \in 1..Len(met) |-> [at |-> <<met[i]>>, chunk |-> mem[met[i]].chunk]])
  /\ blk' = [blk EXCEPT !.head = Nil, !.tail = Nil]
  /\ handle' = NULL
  /\ UNCHANGED <<parser, rc, status, file, diag, flat, reread, calls, mem, seq, sectioning, mapping, owned, apart>>

(* The caller of dc_parser_section_append: a section of its own made with    *)
(* dc_parser_section_new, and blocks made with dc_parser_block_new           *)

\* the number of blocks made for the caller's section at most
MaxBlocks == 3

\* section = dc_parser_section_new()
SectionNew ==
  /\ pc = "new"
  /\ pc' = "section"
  /\ sec' = [head |-> Nil, tail |-> Nil]
  /\ UNCHANGED <<parser, rc, status, file, diag, flat, reread,
                 calls, blk, mem, seq, freed, handle, bmem, mapping, owned, apart>>

\* dc_parser_section_append(section, dc_parser_block_new(name)): the new
\* block is at the address malloc hands out, its prev holds the value prev
SectionAppend(name, prev) ==
  /\ pc = "section"
  /\ Len(bmem) < MaxBlocks
  /\ \E m \in HandedOut(bmem, Len(bmem) + 1) :
       LET a == Len(bmem) + 1
           r == LinkBlock(sec, Append(m, BlockNode(name, prev)), a)
       IN /\ sec' = r.block
          /\ bmem' = r.mem
  /\ UNCHANGED <<parser, reading, calls, blk, mem, seq, freed, handle, mapping, owned, apart>>

NextMemory ==
  \/ \E path \in Paths : ReadFileOpenFail(path)
  \/ \E path \in Paths : ReadFileOpen(path)
  \/ \E line \in Lines : ReadFileLine(line)
  \/ ReadFileEOF
  \/ ParserFree
  \/ \E name \in BlockNames : BlockNew(name)
  \/ \E text \in ChunkTexts : ChunkAppend(text)
  \/ \E text \in ChunkTexts : ChunkPrepend(text)
  \/ \E a \in 1..Len(mem) : ChunkDelete(a)
  \/ BlockFree
  \/ SectionNew
  \/ \E name \in BlockNames \ {NULL} :
       \E prev \in Indeterminate(bmem) \cup {Len(bmem) + 1} :
         SectionAppend(name, prev)

SpecMemory == Init /\ [][NextMemory]_vars

---------------------------------------------------------------------------
(* C24 *)

\* the allocations reachable from the parser: the object, its handler, the
\* context path when set, and every section, block, name, chunk and text
ParserAllocations(p) ==
  {<<"parser">>, <<"handler">>}
    \cup (IF p.ctx.path # NULL THEN {<<"path">>} ELSE {})
    \cup { <<"section", s>> : s \in 1..Len(p.head) }
    \cup UNION { UNION { { <<"block", s, b>>, <<"name", s, b>> } :
                         b \in 1..Len(p.head[s]) } : s \in 1..Len(p.head) }
    \cup { <<"chunk">> \o at : at \in ChunkPlaces(p) }
    \cup { <<"text">> \o at : at \in { x \in ChunkPlaces(p) : ChunkAt(p, x).text # NULL } }

\* the allocations made for the caller's block: the object, its name when
\* it has one, and every chunk made for it with its text when it has one
BlockAllocations ==
  {<<"block">>}
    \cup (IF blk.name # NULL THEN {<<"name">>} ELSE {})
    \cup { <<"chunk", a>> : a \in 1..Len(mem) }
    \cup { <<"text", a>> : a \in { x \in 1..Len(mem) : mem[x].chunk.text # NULL } }

\* every allocation of the set was passed to free() once, and nothing else
ReleasedOnce(allocations) ==
  /\ { freed[i] : i \in 1..Len(freed) } = allocations
  /\ \A i, j \in 1..Len(freed) : freed[i] = freed[j] => i = j

\* C24: dc_parser_free on a document populated by any read (returned
\* dcNoErr, dcSyntaxErr or dcFileErr) releases every section, block, name,
\* chunk and text, the context path and the handler exactly once each, and
\* sets the caller's pointer to NULL; likewise dc_parser_block_free after
\* any sequence of append, prepend and delete on the block, the chunks
\* deleted before having been released once by dc_parser_block_delete.
C24_ReleasedExactlyOnce ==
  /\ pc = "freed" => ReleasedOnce(ParserAllocations(parser)) /\ handle = NULL
  /\ pc = "released" => ReleasedOnce(BlockAllocations) /\ handle = NULL
  /\ pc = "block" =>
       ReleasedOnce({ <<"chunk", a>> : a \in { x \in 1..Len(mem) : \A i \in 1..Len(seq) : seq[i] # x } }
                    \cup { <<"text", a>> : a \in { x \in 1..Len(mem) :
                             mem[x].chunk.text # NULL /\ \A i \in 1..Len(seq) : seq[i] # x } })

\* a parser released after a read that ended with dcSyntaxErr on its fourth
\* line and left two sections behind
C24_Witness ==
  /\ pc = "freed"
  /\ status = dcSyntaxErr
  /\ Len(file) = 4
  /\ Len(parser.head) = 2
  /\ Len(freed) > 8

\* a parser released after a read that ended with dcFileErr
C24_FileErrWitness == pc = "freed" /\ status = dcFileErr /\ Len(freed) = 3

\* a block released after a chunk was prepended, one appended and one deleted
C24_BlockWitness ==
  /\ pc = "released"
  /\ Len(mem) = 3
  /\ Len(seq) = 2
  /\ Len(freed) > 5

---------------------------------------------------------------------------
(* C29 *)

\* the sequence in reverse order
Reversed(s) == [i \in 1..Len(s) |-> s[Len(s) + 1 - i]]

\* C29: after any sequence of dc_parser_block_append and
\* dc_parser_block_prepend, each with a chunk just made, and of
\* dc_parser_block_delete of a chunk that is in the block, the chunk list of
\* the block is the sequence in which append adds at the end, prepend adds
\* at the front and delete removes that chunk alone: following next from
\* head gives the sequence, following prev from tail gives its reverse, the
\* prev of head and the next of tail are NULL, and head and tail are NULL
\* exactly when the sequence is empty.
C29_ChunkListRefinesSequence ==
  pc = "block" =>
    /\ Forward(mem, blk.head, Len(mem) + 1) = seq
    /\ Backward(mem, blk.tail, Len(mem) + 1) = Reversed(seq)
    /\ blk.head # Nil => mem[blk.head].prev = Nil
    /\ blk.tail # Nil => mem[blk.tail].next = Nil
    /\ blk.head = Nil <=> seq = <<>>
    /\ blk.tail = Nil <=> seq = <<>>
    /\ \A i, j \in 1..Len(seq) : seq[i] = seq[j] => i = j

\* three chunks were made, the second prepended, the third appended, and
\* the first, then in the middle, deleted
C29_Witness ==
  /\ pc = "block"
  /\ Len(mem) = 3
  /\ seq = <<2, 3>>
  /\ freed # <<>>
  /\ blk.head = 2 /\ blk.tail = 3

---------------------------------------------------------------------------
(* C30 *)

\* the blocks of the caller's section, met from head on by following next
BlockOrder == Forward(bmem, sec.head, Len(bmem) + 1)

\* for consecutive blocks a, b of the list, the next of a is b and the prev
\* of b is a; the next of the last block is NULL; the order is that of the
\* dc_parser_section_append calls
LinkedBehindTheHead ==
  /\ BlockOrder = [i \in 1..Len(bmem) |-> i]
  /\ sec.tail # Nil => bmem[sec.tail].next = Nil
  /\ \A i \in 1..(Len(BlockOrder) - 1) :
       /\ bmem[BlockOrder[i]].next = BlockOrder[i + 1]
       /\ bmem[BlockOrder[i + 1]].prev = BlockOrder[i]
  /\ sec.head = Nil <=> bmem = <<>>
  /\ sec.tail = Nil <=> bmem = <<>>

\* C30: in a section, after any sequence of dc_parser_section_append calls
\* with blocks made by dc_parser_block_new, the block list is a consistent
\* doubly-linked list: the prev of the first block is NULL, the next of the
\* last block is NULL, for consecutive blocks a, b the next of a is b and
\* the prev of b is a, and the forward order is the order of appending.
C30_BlockListConsistent ==
  pc = "section" =>
    /\ sec.head # Nil => bmem[sec.head].prev = Nil
    /\ LinkedBehindTheHead

\* what holds of the list: all of the above but the prev of the first block
C30_ConsistentBehindTheHead == pc = "section" => LinkedBehindTheHead

\* three blocks were appended, and the prev of the first is not NULL
C30_WildHeadWitness ==
  /\ pc = "section"
  /\ Len(bmem) = 3
  /\ bmem[sec.head].prev = Wild

---------------------------------------------------------------------------
(* The caller of dc_valid_package *)

\* the length of the names at most, and the characters they are made of
MaxName == 3
PackageChars == { "a", "7", "A", "+", "-", ".", "_" }
Names == UNION { [1..n -> PackageChars] : n \in 0..MaxName }

\* dc_valid_package(name)
ValidPackage(name) ==
  /\ valid = <<>>
  /\ valid' = << [name |-> name, rc |-> dc_valid_package(name)] >>
  /\ UNCHANGED <<parser, reading, calls, blk, mem, seq, freed, handle, sectioning,
                 control, ver, strs, vsets, mapped, owned, apart>>

NextValidate == \E name \in Names : ValidPackage(name)

SpecValidate == Init /\ [][NextValidate]_vars

---------------------------------------------------------------------------
(* C26 *)

\* a character a package name can start with, and one it can go on with
IsPrefixChar(c) == c \in Lower \cup Digits
IsNameChar(c) == c \in Lower \cup Digits \cup {"+", "-", "."}

\* C26: for a name that is not NULL, dc_valid_package returns
\* dcPackageLengthErr when the name has fewer than two characters;
\* otherwise dcPackagePrefixErr when its first character is not a lower-case
\* letter or a digit; otherwise dcPackageInvalidErr when a later character is
\* not a lower-case letter, a digit, '+', '-' or '.'; otherwise dcNoErr.
C26_PackageNamePrecedence ==
  \A i \in 1..Len(valid) :
    LET name == valid[i].name
        got == valid[i].rc
    IN /\ Len(name) < 2 => got = dcPackageLengthErr
       /\ Len(name) >= 2 /\ ~IsPrefixChar(name[1]) => got = dcPackagePrefixErr
       /\ Len(name) >= 2 /\ IsPrefixChar(name[1])
            /\ (\E j \in 2..Len(name) : ~IsNameChar(name[j])) => got = dcPackageInvalidErr
       /\ Len(name) >= 2 /\ IsPrefixChar(name[1])
            /\ (\A j \in 2..Len(name) : IsNameChar(name[j])) => got = dcNoErr

\* a name of one character that is no prefix character: the length decides
C26_Witness == valid = << [name |-> <<"A">>, rc |-> dcPackageLengthErr] >>

\* a name wrong at its first and at a later character: the prefix decides
C26_PrefixWitness ==
  valid = << [name |-> <<"+", "_", "a">>, rc |-> dcPackagePrefixErr] >>

\* a name made of every kind of character allowed after the first
C26_ValidWitness == valid = << [name |-> <<"7", "+", ".">>, rc |-> dcNoErr] >>

---------------------------------------------------------------------------
(* The caller of dc_version_set: a version object made with dc_version_new   *)
(* is set, and set again                                                     *)

\* the length of the version strings at most, and the characters they are
\* made of
MaxVersion == 3
VersionChars == { "1", "a", ":", "-" }
EpochStrings ==
  { <<"0", "1", ":">>,
    ULONG_MAX \o <<":", "1">>,
    SubSeq(ULONG_MAX, 1, 19) \o <<"6", ":", "1", "-", "1">> }
VersionStrings == UNION { [1..n -> VersionChars] : n \in 0..MaxVersion } \cup EpochStrings

\* the free() calls made with the addresses of released, for the record
Frees(released) == [i \in 1..Len(released) |-> <<"free", released[i]>>]

\* the addresses that were passed to free()
Released == { freed[i][2] : i \in 1..Len(freed) }

\* what a dc_version_set call does to the state
VersionSetCall(vstring) ==
  /\ ver # Nil
  /\ LET r == dc_version_set(strs[ver], strs, vstring)
     IN /\ strs' = [r.strs EXCEPT ![ver] = r.version]
        /\ freed' = freed \o Frees(r.freed)
        /\ vsets' = Append(vsets, [vstring |-> vstring, rc |-> r.rc])
  /\ UNCHANGED <<parser, reading, calls, blk, mem, seq, handle, sectioning,
                 valid, control, ver, mapped, owned, apart>>

\* dc_version_set(version, vstring) on the object dc_version_new returned
VersionSet(vstring) == vsets = <<>> /\ VersionSetCall(vstring)

\* dc_version_set(version, vstring) on the object that was set before
VersionSetAgain(vstring) == Len(vsets) = 1 /\ VersionSetCall(vstring)

\* dc_version_free(&version)
VersionFree ==
  /\ ver # Nil
  /\ LET r == dc_version_free(ver, strs)
     IN /\ ver' = r.ptr
        /\ freed' = freed \o Frees(r.freed)
  /\ UNCHANGED <<parser, reading, calls, blk, mem, seq, handle, sectioning,
                 valid, control, strs, vsets, mapped, owned, apart>>

NextVersion ==
  \/ \E vstring \in VersionStrings : VersionSet(vstring)
  \/ \E vstring \in VersionStrings : VersionSetAgain(vstring)
  \/ VersionFree

SpecVersion == Init /\ [][NextVersion]_vars

---------------------------------------------------------------------------
(* C27 *)

\* the string a pointer of the version object points to, NULL for none
Deref(heap, a) == IF a = Nil THEN NULL ELSE heap[a]

\* the version object with the strings in place of their addresses
Parts(v, heap) ==
  [epoch |-> v.epoch,
   version |-> Deref(heap, v.version),
   revision |-> Deref(heap, v.revision)]

\* the number a string of digits denotes in base ten, as its numeral: the
\* digits without the zeros in front, and 0 for none left
RECURSIVE DecimalValue(_)
DecimalValue(digits) ==
  IF digits = <<>> THEN Zero
  ELSE IF Head(digits) = "0" THEN DecimalValue(Tail(digits))
  ELSE digits

\* what the format [epoch:]upstream_version[-debian_revision] makes of the
\* string s: the text before the first ':' when there is one, and the rest
\* cut at its last '-' when there is one
EpochText(s) == SubSeq(s, 1, FirstColon(s) - 1)
Remainder(s) == IF HasColon(s) THEN SubSeq(s, FirstColon(s) + 1, Len(s)) ELSE s
HasDash(s) == \E i \in 1..Len(s) : s[i] = "-"
FinalDash(s) == CHOOSE i \in 1..Len(s) : s[i] = "-" /\ \A j \in (i + 1)..Len(s) : s[j] # "-"

\* the status and the parts that the format gives for the string s, with the
\* epoch that the text before the ':' gives as epoch
SplitWithEpoch(s, epoch) ==
  LET got == Parts(strs[ver], strs)
      r == Remainder(s)
  IN IF HasColon(s) /\ \E i \in 1..Len(EpochText(s)) : EpochText(s)[i] \notin Digits
       THEN vsets[1].rc = dcParameterErr
       ELSE /\ vsets[1].rc = dcNoErr
            /\ got.epoch = (IF HasColon(s) THEN epoch ELSE Zero)
            /\ got.revision =
                 (IF HasDash(r) THEN SubSeq(r, FinalDash(r) + 1, Len(r)) ELSE NULL)
            /\ got.version =
                 (IF HasDash(r) THEN SubSeq(r, 1, FinalDash(r) - 1) ELSE r)

\* C27: dc_version_set(version, s) splits s in the format
\* [epoch:]upstream_version[-debian_revision]: when s has a ':', the epoch is
\* the decimal value of the text before the first ':', and a character of
\* that text that is no digit gives dcParameterErr; the revision is the text
\* after the last '-' of the remainder, and absent when the remainder has no
\* '-'; the upstream version is the remainder before that last '-'; without
\* ':' the epoch is 0.
C27_VersionSplit ==
  Len(vsets) = 1 /\ ver # Nil =>
    SplitWithEpoch(vsets[1].vstring, DecimalValue(EpochText(vsets[1].vstring)))

\* the string "18446744073709551616:1-1" was set: the status is dcNoErr and
\* the epoch is ULONG_MAX, one less than the text before the ':' denotes
C27_ClampedWitness ==
  /\ ver # Nil
  /\ vsets = << [vstring |-> SubSeq(ULONG_MAX, 1, 19) \o <<"6", ":", "1", "-", "1">>,
                 rc |-> dcNoErr] >>
  /\ Parts(strs[ver], strs) = [epoch |-> ULONG_MAX, version |-> <<"1">>, revision |-> <<"1">>]

\* what holds of the code: the split is as stated, with ULONG_MAX as the
\* epoch when the text before the ':' denotes a greater number
C27_VersionSplitClamped ==
  Len(vsets) = 1 /\ ver # Nil =>
    LET epoch == DecimalValue(EpochText(vsets[1].vstring))
    IN SplitWithEpoch(vsets[1].vstring,
                      IF NumeralLess(ULONG_MAX, epoch) THEN ULONG_MAX ELSE epoch)

\* the string "--1" was set: the upstream version is "-", the revision "1"
C27_Witness ==
  /\ ver # Nil
  /\ vsets = << [vstring |-> <<"-", "-", "1">>, rc |-> dcNoErr] >>
  /\ Parts(strs[ver], strs) = [epoch |-> Zero, version |-> <<"-">>, revision |-> <<"1">>]

\* the string "11:" was set: the epoch is 11
C27_EpochWitness ==
  /\ ver # Nil
  /\ vsets = << [vstring |-> <<"1", "1", ":">>, rc |-> dcNoErr] >>
  /\ Parts(strs[ver], strs) = [epoch |-> <<"1", "1">>, version |-> <<>>, revision |-> NULL]

\* the string "01:" was set: the epoch is 1
C27_ZeroInFrontWitness ==
  /\ ver # Nil
  /\ vsets = << [vstring |-> <<"0", "1", ":">>, rc |-> dcNoErr] >>
  /\ Parts(strs[ver], strs) = [epoch |-> <<"1">>, version |-> <<>>, revision |-> NULL]

\* the string "a:1" was set: the epoch is no number
C27_ParameterErrWitness ==
  /\ ver # Nil
  /\ vsets = << [vstring |-> <<"a", ":", "1">>, rc |-> dcParameterErr] >>

---------------------------------------------------------------------------
(* C28 *)

\* what dc_version_set(s) leaves in an object that dc_version_new just made
SetOnFresh(s) ==
  LET r == dc_version_set(dc_version_new, <<>>, s)
  IN Parts(r.version, r.strs)

\* C28: dc_version_set is safe on an object that was set before: after
\* dc_version_set(v, s1) and then a dc_version_set(v, s2) that returns
\* dcNoErr, the epoch, the upstream version and the revision of v are those
\* that setting s2 on a newly made object gives, so that nothing of s1 is
\* left, such as its revision when s2 has none; and no string of v is passed
\* to free() twice, by dc_version_set or by a dc_version_free that follows.
C28_SetAgainAsOnFresh ==
  /\ Len(vsets) = 2 /\ vsets[2].rc = dcNoErr /\ ver # Nil =>
       Parts(strs[ver], strs) = SetOnFresh(vsets[2].vstring)
  /\ \A i, j \in 1..Len(freed) : freed[i] = freed[j] => i = j

\* "1:a-1" cannot be written with three characters: "a-1" was set, then "1:a"
C28_Witness ==
  /\ ver # Nil
  /\ vsets = << [vstring |-> <<"a", "-", "1">>, rc |-> dcNoErr],
                [vstring |-> <<"1", ":", "a">>, rc |-> dcNoErr] >>
  /\ Parts(strs[ver], strs) = [epoch |-> <<"1">>, version |-> <<"a">>, revision |-> NULL]
  /\ Len(freed) = 4

\* the object that was set twice was passed to dc_version_free
C28_FreedWitness ==
  /\ ver = Nil
  /\ Len(vsets) = 2 /\ vsets[1].rc = dcNoErr /\ vsets[2].rc = dcNoErr
  /\ Len(freed) = 7

\* nothing is left behind either: the allocations that were not passed to
\* free() are the control object, the version object and the strings the
\* version object points to
NoStringLeaked ==
  (1..Len(strs)) \ Released =
    {control} \cup (IF ver = Nil THEN {}
                    ELSE {ver, strs[ver].version, strs[ver].revision} \ {Nil})

---------------------------------------------------------------------------
(* The mapping of the fields of a section to the control object; every       *)
(* operation hands back the block or the section it was given as it leaves   *)
(* it                                                                        *)

MsgLength == "Package names must be at least two characters long"
MsgPrefix == "Package names must begin with a number or lower-case letter"
MsgInvalid == "Package names must contain only"
MsgContinuation == "Ignoring unexpected continuation data"
MsgUnknown == "Ignoring unknown source package control field"

\* dc_field_table: the names, in the order of the table; every hook is
\* dc_control_parse_package
dc_field_table ==
  << <<"P", "a", "c", "k", "a", "g", "e">>, <<"S", "o", "u", "r", "c", "e">> >>

\* bsearch with dc_field_compare: the index of the entry whose name is the
\* needle's when case is not told apart, 0 for a null result
FieldSearch(needle) ==
  IF \E i \in 1..Len(dc_field_table) : strcasecmp(needle, dc_field_table[i])
    THEN CHOOSE i \in 1..Len(dc_field_table) : strcasecmp(needle, dc_field_table[i])
    ELSE 0

\* what dc_valid_package can return for a NULL name: dcPackageLengthErr from
\* the copy of validate.c that tests for it, and from the copy that asserts
\* an abort, or dcParameterErr when it is built with NDEBUG
ValidOfNull == {dcPackageLengthErr, dcParameterErr, SIGABRT}

\* what a hook hands back: its status, the control object, the block, the
\* handler invocations it made, and the allocations
Hooked(r, c, b, out, heap) ==
  [rc |-> r, control |-> c, block |-> b, out |-> out, strs |-> heap]

\* a dc_control_parse_package that consumes the block: it deletes the
\* continuation data it ignores
ParsePackageConsumes(c, name, block, ofnull, heap) ==
  Hooked(dcNoErr,
         IF name[1] = "S" /\ block.chunks[1].text # NULL
           THEN [c EXCEPT !.source.name = Len(heap) + 1]
           ELSE c,
         [block EXCEPT !.chunks = <<block.chunks[1]>>],
         <<>>,
         IF name[1] = "S" /\ block.chunks[1].text # NULL
           THEN Append(heap, block.chunks[1].text)
           ELSE heap)

\* dc_control_parse_package(control, name, block), with the allocations made
\* so far in heap; ofnull is what dc_valid_package returns for a NULL name
dc_control_parse_package(c, name, block, ofnull, heap) ==
  LET chunk == block.chunks[1]
      validity == IF chunk.text = NULL THEN ofnull ELSE dc_valid_package(chunk.text)
      ctx == <<chunk.ctx>>
      first ==
        IF validity = dcPackageLengthErr THEN <<dc_warn(c.handler, ctx, MsgLength)>>
        ELSE IF validity = dcPackagePrefixErr THEN <<dc_warn(c.handler, ctx, MsgPrefix)>>
        ELSE IF validity = dcPackageInvalidErr THEN <<dc_warn(c.handler, ctx, MsgInvalid)>>
        ELSE <<>>
      copied == name[1] = "S" /\ chunk.text # NULL
      named ==
        IF name[1] = "S"
          THEN [c EXCEPT !.source.name = IF copied THEN Len(heap) + 1 ELSE Nil]
          ELSE c
      second ==
        IF Len(block.chunks) > 1
          THEN <<dc_warn(c.handler, <<block.chunks[2].ctx>>, MsgContinuation)>>
          ELSE <<>>
  IN IF validity = SIGABRT
       THEN Hooked(SIGABRT, c, block, <<>>, heap)
       ELSE Hooked(dcNoErr, named, block, first \o second,
                   IF copied THEN Append(heap, chunk.text) ELSE heap)

\* what dc_control_parse hands back: its status, the control object, the
\* section, the handler invocations it made, and the allocations
Mapped(r, c, s, out, heap) ==
  [rc |-> r, control |-> c, section |-> s, out |-> out, strs |-> heap]

\* the loop of dc_control_parse from block b of the section on
RECURSIVE ControlParseFrom(_, _, _, _, _, _)
ControlParseFrom(c, section, b, out, ofnull, heap) ==
  IF b > Len(section) THEN Mapped(dcNoErr, c, section, out, heap)
  ELSE LET res == FieldSearch(section[b].name)
       IN IF res = 0
            THEN ControlParseFrom(c, section, b + 1,
                   Append(out, dc_warn(c.handler, <<section[b].chunks[1].ctx>>, MsgUnknown)),
                   ofnull, heap)
            ELSE LET h == dc_control_parse_package(c, dc_field_table[res], section[b],
                                                   ofnull, heap)
                     left == [section EXCEPT ![b] = h.block]
                 IN IF h.rc = SIGABRT
                      THEN Mapped(SIGABRT, h.control, left, out \o h.out, h.strs)
                      ELSE ControlParseFrom(h.control, left, b + 1, out \o h.out,
                                            ofnull, h.strs)

\* dc_control_parse(control, section), with the allocations made so far in
\* heap
dc_control_parse(c, section, ofnull, heap) ==
  ControlParseFrom(c, section, 1, <<>>, ofnull, heap)

\* the number of lines of the control files at most, and their lines
MaxFields == 3
ControlLines ==
  { <<"S", "o", "u", "r", "c", "e", ":", "a", "b", "\n">>,
    <<"s", "o", "u", "r", "c", "e", ":", "\n">>,
    <<"P", "a", "c", "k", "a", "g", "e", ":", "A", "b", "\n">>,
    <<"S", "O", "U", "R", "C", "E", ":", " ", "a", "_", "\n">>,
    <<"X", ":", "y", "\n">>,
    <<" ", "z", "\n">>,
    <<"\n">> }
ControlFiles == UNION { [1..n -> ControlLines] : n \in 1..MaxFields }

\* the number of free() calls made through dc_control_source_clear calls
\* of the caller at most
MaxClears == 2

\* the caller can make a call on the control object
ControlCall == control # Nil /\ pc # "aborted" /\ mapped # SIGABRT

\* where the caller can be after free() calls with the addresses of
\* released: a free() of an address that was passed to free() before is
\* undefined, and can end the process
AfterFrees(released) ==
  IF \E i \in 1..Len(released) : released[i] \in Released
    THEN {pc, "aborted"}
    ELSE {pc}

\* dc_control_parse(control, section) on section s of the document
ControlParse(s, ofnull) ==
  /\ pc = "returned"
  /\ mapped = "none"
  /\ control # Nil
  /\ LET r == dc_control_parse(strs[control], parser.head[s], ofnull, strs)
     IN /\ strs' = [r.strs EXCEPT ![control] = r.control]
        /\ parser' = [parser EXCEPT !.head[s] = r.section]
        /\ diag' = diag \o r.out
        /\ mapped' = r.rc
  /\ UNCHANGED <<pc, rc, status, file, flat, reread, calls, blk, mem, seq, freed,
                 handle, sectioning, valid, control, ver, vsets, owned, apart>>

\* dc_control_source_init(&control->source)
ControlSourceInit ==
  /\ ControlCall
  /\ strs' = [strs EXCEPT ![control].source = dc_control_source_init(@)]
  /\ UNCHANGED <<parser, reading, calls, blk, mem, seq, freed, handle, sectioning,
                 valid, control, ver, vsets, mapped, owned, apart>>

\* dc_control_source_clear(&control->source)
ControlSourceClear ==
  /\ ControlCall
  /\ Len(freed) < MaxClears
  /\ LET released == dc_control_source_clear(strs[control].source)
     IN /\ freed' = freed \o Frees(released)
        /\ pc' \in AfterFrees(released)
  /\ UNCHANGED <<parser, rc, status, file, diag, flat, reread, calls, blk, mem, seq,
                 handle, sectioning, valid, control, ver, strs, vsets, mapped,
                 owned, apart>>

\* dc_control_free(&control); a process that ends at the free() of the name
\* has released nothing more
ControlFree ==
  /\ ControlCall
  /\ LET r == dc_control_free(control, strs)
         name == dc_control_source_clear(strs[control].source)
     IN \E at \in AfterFrees(name) :
          /\ pc' = at
          /\ freed' = freed \o Frees(IF at = pc THEN r.freed ELSE name)
          /\ control' = IF at = pc THEN r.ptr ELSE control
  /\ UNCHANGED <<parser, rc, status, file, diag, flat, reread, calls, blk, mem, seq,
                 handle, sectioning, valid, ver, strs, vsets, mapped, owned, apart>>

NextControl ==
  \/ \E path \in Paths : \E lines \in ControlFiles : ReadWholeFile(path, lines)
  \/ \E s \in 1..Len(parser.head) : \E ofnull \in ValidOfNull : ControlParse(s, ofnull)
  \/ ControlSourceInit
  \/ ControlSourceClear
  \/ ControlFree

SpecControl == Init /\ [][NextControl]_vars

---------------------------------------------------------------------------
(* C25 *)

\* a step in which dc_control_parse was applied to a section
ControlParsed == mapped = "none" /\ mapped' # "none"

\* C25: dc_control_parse, applied to a section of a parsed document, leaves
\* the block list of the section, the name and the chunk list of every
\* block, and the text, the kind and the context of every chunk as they
\* were; it writes only the source name of the control object, and calls
\* only the warn handler of the control object.
C25_MappingLeavesDocument ==
  [][ControlParsed =>
       /\ parser' = parser
       /\ control' = control
       /\ strs'[control].handler = strs[control].handler
       /\ \A a \in 1..Len(strs) : a # control => strs'[a] = strs[a]
       /\ \A i \in 1..Len(Emitted) :
            Emitted[i].sev = "warn" /\ Emitted[i].fn = strs[control].handler.warn
       /\ UNCHANGED <<pc, rc, status, file, flat, reread, calls, blk, mem, seq,
                      freed, handle, sectioning, valid, ver, vsets, owned, apart>>]_vars

\* the section read from "Source:ab", " z", "X:y" was mapped: the source name
\* is "ab", and the continuation and the unknown field were warned about
C25_Witness ==
  /\ mapped = dcNoErr
  /\ Len(file) = 3
  /\ Len(parser.head[1]) = 2
  /\ Len(parser.head[1][1].chunks) = 2
  /\ control # Nil
  /\ freed = <<>>
  /\ strs[control].source.name # Nil
  /\ strs[strs[control].source.name] = <<"a", "b">>
  /\ [i \in 1..Len(diag) |-> diag[i].msg] = <<MsgContinuation, MsgUnknown>>

\* the section read from "source:" was mapped by the build that asserts
C25_AbortWitness == mapped = SIGABRT /\ Len(file) = 1 /\ strs[control].source.name = Nil

---------------------------------------------------------------------------
(* C31 *)

\* the sections of the parser, met from head on by following next
SectionOrder == Forward(smem, doc.head, Len(smem) + 1)

\* the sections form a forward list from head in the order of the
\* dc_parser_append calls, one for each section of the document; its last
\* element is parser->tail, and the next of the tail is NULL
SectionListForward ==
  smem # <<>> =>
    /\ SectionOrder = [i \in 1..Len(smem) |-> i]
    /\ Len(smem) = Len(parser.head)
    /\ doc.tail = SectionOrder[Len(SectionOrder)]
    /\ smem[doc.tail].next = Nil

\* a step that handles a line leaves every section but the tail as it was,
\* and a field line or a continuation line opens no section
AppliedToTailOnly ==
  LineHandled =>
    /\ Len(parser'.head) >= Len(parser.head)
    /\ \A s \in 1..(Len(parser.head) - 1) : parser'.head[s] = parser.head[s]
    /\ (IsFieldLine(HandledLine) \/ IsContinuation(HandledLine)) =>
         Len(parser'.head) = Len(parser.head)

\* C31: after any sequence of dc_parser_append calls, the sections of the
\* document form a forward list from head in append order whose last element
\* is the document's tail, and the tail's next link is absent; during a read
\* every field line and continuation line is applied to the tail section
\* only: the blocks and chunks of the sections before it are never modified.
C31_SectionsForwardTailOnly ==
  /\ []SectionListForward
  /\ [][AppliedToTailOnly]_vars

\* two sections were appended; the first holds a field and was closed by a
\* blank line, and a field line and a continuation line were read into the
\* second
C31_Witness ==
  /\ pc = "reading"
  /\ Len(file) = 4
  /\ doc = [head |-> 1, tail |-> 2]
  /\ smem = << [next |-> 2], [next |-> Nil] >>
  /\ Len(parser.head) = 2
  /\ Len(parser.head[1]) = 1
  /\ Len(parser.head[2]) = 1
  /\ Len(parser.head[2][1].chunks) = 2

---------------------------------------------------------------------------
(* C32 *)

\* the section holds a block whose name is the given one, whatever the case
\* of the letters
NamedIn(section, name) ==
  \E b \in 1..Len(section) : LowerCase(section[b].name) = LowerCase(name)

\* C32: a field line whose name is, whatever the case of the letters, the
\* name of a block of an earlier section and of no block of the current
\* section is read with dcNoErr into a new block of the current section; no
\* handler is invoked, and the earlier sections stay as they were.
C32_DuplicatesWithinSection ==
  [][ /\ LineHandled
      /\ IsFieldLine(HandledLine)
      /\ \E s \in 1..(Len(parser.head) - 1) :
           NamedIn(parser.head[s], FieldName(HandledLine))
      /\ ~NamedIn(ParserTail(parser), FieldName(HandledLine))
      =>
        LET value == FieldValue(HandledLine)
        IN /\ rc' = dcNoErr
           /\ Emitted = <<>>
           /\ AppendedToNew(FieldName(HandledLine),
                            IF value = <<>> THEN CHUNK_EMPTY ELSE CHUNK_FIXED,
                            IF value = <<>> THEN NULL ELSE value)
           /\ \A s \in 1..(Len(parser.head) - 1) : parser'.head[s] = parser.head[s]
    ]_vars

\* 'A' was read into the first section and, after a blank line, 'a' into the
\* second: each section holds one block of one chunk, and no handler was
\* invoked
C32_Witness ==
  /\ Len(file) = 3
  /\ IsBlank(file[2])
  /\ Len(parser.head) = 2
  /\ Len(parser.head[1]) = 1 /\ parser.head[1][1].name = <<"A">>
  /\ Len(parser.head[1][1].chunks) = 1
  /\ Len(parser.head[2]) = 1 /\ parser.head[2][1].name = <<"a">>
  /\ diag = <<>>
  /\ rc = dcNoErr

---------------------------------------------------------------------------
(* C33 *)

\* a line made of spaces, tabs, carriage returns and line feeds only
WhiteOnly(line) ==
  /\ line # <<>>
  /\ \A i \in 1..Len(line) : line[i] \in {" ", "\t", "\r", "\n"}

\* C33: a line made only of spaces, tabs, carriage returns and line feeds is
\* handled as a blank line, never as a continuation line: the status is
\* dcNoErr, no chunk and no block is made, and either the section being
\* filled holds a block and a new empty section is appended without a
\* message, or it holds none, the document stays as it is and the one
\* message is the warning of repeated blank lines; this is so also when no
\* block is open.
C33_WhiteLineIsBlank ==
  [][ LineHandled /\ WhiteOnly(HandledLine) =>
        /\ rc' = dcNoErr
        /\ \A s \in 1..Len(parser.head) : parser'.head[s] = parser.head[s]
        /\ IF OpenBlocks(parser) = 0
             THEN /\ parser'.head = parser.head
                  /\ Len(Emitted) = 1
                  /\ Emitted[1].sev = "warn"
                  /\ Emitted[1].msg = MsgBlank
             ELSE /\ parser'.head = Append(parser.head, dc_parser_section_new)
                  /\ Emitted = <<>>
    ]_vars

\* a line of a space, a carriage return and a line feed was read first, with
\* no block open, and one after a field: the first gave the warning, the
\* second closed the section, and the read goes on
C33_Witness ==
  /\ Len(file) = 3
  /\ file[1] = <<" ", "\r", "\n">>
  /\ file[3] = <<" ", "\r", "\n">>
  /\ pc = "reading"
  /\ rc = dcNoErr
  /\ Len(diag) = 1 /\ diag[1].msg = MsgBlank
  /\ Len(parser.head) = 2
  /\ Len(parser.head[1]) = 1
  /\ Len(parser.head[1][1].chunks) = 1
  /\ parser.head[2] = <<>>

---------------------------------------------------------------------------
(* C34 *)

\* the call has returned, the file was opened and no line was refused: the
\* crit handler was never called
ReadWithoutSyntaxError == pc = "returned" /\ Criticals = <<>>

\* the document has at least one section, and the one section of a file
\* without lines has no block
SectionsAfterRead ==
  /\ Len(parser.head) >= 1
  /\ file = <<>> => parser.head = << dc_parser_section_new >>

\* C34: for every file that opens and in which no line is a syntax error,
\* the file without lines and the files of comment lines included,
\* dc_parser_read_file returns dcNoErr, and the document then has at least
\* one section; for the file without lines it has exactly one section, and
\* that section has no block.
C34_SuccessWithoutSyntaxError ==
  ReadWithoutSyntaxError => status = dcNoErr /\ SectionsAfterRead

\* what holds of the code: dcNoErr for the files of at least one line, and
\* the sections as stated for all of them
C34_SuccessOfFilesWithLines ==
  ReadWithoutSyntaxError =>
    /\ file # <<>> => status = dcNoErr
    /\ SectionsAfterRead

\* a file without lines was read and the status returned is no enumerator of
\* dcStatus
C34_NoLinesWitness ==
  /\ pc = "returned"
  /\ file = <<>>
  /\ diag = <<>>
  /\ status = OtherInt
  /\ parser.head = << <<>> >>

\* a file of comment lines only was read with dcNoErr
C34_CommentsWitness ==
  /\ pc = "returned"
  /\ Len(file) = 2
  /\ \A i \in 1..Len(file) : IsComment(file[i])
  /\ status = dcNoErr
  /\ parser.head = << <<>> >>

---------------------------------------------------------------------------
(* C35 *)

\* C35: in every state of a read, every block of the document has at least
\* one chunk; its first chunk was made from a field line of that name and
\* its kind is CHUNK_FIXED or CHUNK_EMPTY, never CHUNK_MERGE; a chunk of
\* kind CHUNK_MERGE is never the first of its block.
C35_FirstChunkFromFieldLine ==
  \A s \in 1..Len(parser.head) :
    \A b \in 1..Len(parser.head[s]) :
      LET block == parser.head[s][b]
      IN /\ Len(block.chunks) >= 1
         /\ block.chunks[1].type \in {CHUNK_FIXED, CHUNK_EMPTY}
         /\ block.chunks[1].ctx.line \in 1..Len(file)
         /\ IsFieldLine(file[block.chunks[1].ctx.line])
         /\ FieldName(file[block.chunks[1].ctx.line]) = block.name
         /\ \A c \in 1..Len(block.chunks) :
              block.chunks[c].type = CHUNK_MERGE => c > 1

\* a block whose first chunk is Empty and is followed by a Merge chunk, and
\* a block whose first chunk is Fixed and is followed by the Fixed chunk of a
\* second field line of its name
C35_Witness ==
  /\ Len(file) = 4
  /\ Len(parser.head) = 1
  /\ Len(parser.head[1]) = 2
  /\ parser.head[1][1].chunks[1].type = CHUNK_EMPTY
  /\ Len(parser.head[1][1].chunks) = 2
  /\ parser.head[1][1].chunks[2].type = CHUNK_MERGE
  /\ parser.head[1][2].chunks[1].type = CHUNK_FIXED
  /\ Len(parser.head[1][2].chunks) = 2
  /\ parser.head[1][2].chunks[2].type = CHUNK_FIXED

---------------------------------------------------------------------------
(* A read of a file whose lines are known before the call: getline hands     *)
(* them out in order, each once, and returns -1 after the last               *)

\* the number of lines of such a file at most
MaxInput == 3

\* the lines such a file is made of: a field, a continuation line, an empty
\* line, a comment and a line without a colon
InputLines ==
  { <<"A", ":", "x", "\n">>,
    <<" ", "x", "\n">>,
    <<"\n">>,
    <<"#", "c", "\n">>,
    <<"x", "\n">> }

InputFiles == UNION { [1..n -> InputLines] : n \in 0..MaxInput }

\* a getline that hands out the first line of the file whenever it is called
FirstLineAgain(lines, n) ==
  IF lines # <<>> THEN <<lines[1]>> ELSE <<>>

\* what getline hands out once n lines were handed out: <<line>> for the
\* next line of the file, <<>> for -1 at the end of the file
NextLine(lines, n) ==
  IF n < Len(lines) THEN <<lines[n + 1]>> ELSE <<>>

InitKnown ==
  /\ ReadInit
  /\ input \in InputFiles
  /\ RestInit

\* one turn of the loop on the next line of the file
KnownLine ==
  /\ NextLine(input, Len(file)) # <<>>
  /\ ReadFileLine(NextLine(input, Len(file))[1])

\* getline returns -1 at the end of the file
KnownEOF ==
  /\ NextLine(input, Len(file)) = <<>>
  /\ ReadFileEOF

NextKnown ==
  \/ \E path \in Paths : ReadFileOpenFail(path)
  \/ \E path \in Paths : ReadFileOpen(path)
  \/ KnownLine
  \/ KnownEOF

\* the call is a sequential computation: it takes its next step whenever it
\* has one
SpecKnown == InitKnown /\ [][NextKnown]_vars /\ WF_vars(NextKnown)

---------------------------------------------------------------------------
(* C36 *)

\* the lines handed out so far are the first lines of the file, in order,
\* and the line counter is their number
ConsumedInOrder ==
  /\ Len(file) <= Len(input)
  /\ file = SubSeq(input, 1, Len(file))
  /\ parser.ctx.line = Len(file)

\* how a call on a file that opened has returned: with dcNoErr after the
\* last line when no line was refused; or with the status of a syntax error
\* at the first line refused, which is the last line handed out
ReturnedAtEndOrFailure ==
  pc = "returned" /\ parser.head # <<>> =>
    IF Criticals = <<>>
      THEN /\ Len(file) = Len(input)
           /\ status = dcNoErr
      ELSE /\ status = dcSyntaxErr
           /\ Len(Criticals) = 1
           /\ Criticals[1].ctx = << [path |-> parser.ctx.path, line |-> Len(file)] >>

\* the same, with the status after the last line left open for the file
\* without lines
ReturnedAtEndOrFailureWithLines ==
  pc = "returned" /\ parser.head # <<>> =>
    IF Criticals = <<>>
      THEN /\ Len(file) = Len(input)
           /\ file # <<>> => status = dcNoErr
      ELSE /\ status = dcSyntaxErr
           /\ Len(Criticals) = 1
           /\ Criticals[1].ctx = << [path |-> parser.ctx.path, line |-> Len(file)] >>

\* C36: for every finite file, dc_parser_read_file eventually returns a
\* status: dcNoErr after the last line has been handled, or the failure at
\* the first line that is refused; every line is handed out at most once, in
\* the order of the file, and the read never handles a line twice.
C36_ReadReturns ==
  /\ <>(pc = "returned")
  /\ []ConsumedInOrder
  /\ []ReturnedAtEndOrFailure
  /\ [][LineHandled => pc = "reading" /\ HandledLine = input[Len(file) + 1]]_vars

\* a read of the file without lines has returned, and the status is not
\* dcNoErr although no line was refused
C36_NoLinesWitness ==
  /\ pc = "returned"
  /\ input = <<>>
  /\ parser.head = << <<>> >>
  /\ Criticals = <<>>
  /\ status = OtherInt

\* what holds of the code: the call returns for every file, the lines are
\* handed out once each and in order, and the status is as stated for every
\* file that has a line
C36_ReadReturnsWithLines ==
  /\ <>(pc = "returned")
  /\ []ConsumedInOrder
  /\ []ReturnedAtEndOrFailureWithLines
  /\ [][LineHandled => pc = "reading" /\ HandledLine = input[Len(file) + 1]]_vars

\* a read of a file of three lines has returned at the second, which was
\* refused
C36_FailureWitness ==
  /\ pc = "returned"
  /\ Len(input) = 3
  /\ Len(file) = 2
  /\ status = dcSyntaxErr

\* a read of a file of three lines has returned dcNoErr after the third
C36_EndWitness ==
  /\ pc = "returned"
  /\ Len(input) = 3
  /\ Len(file) = 3
  /\ status = dcNoErr

---------------------------------------------------------------------------
(* Two parsers of one caller, with their objects kept by address: each is    *)
(* made with dc_parser_new and given its first section, the caller installs  *)
(* a warn handler in the first, and passes lines to the first and to the     *)
(* second with dc_parser_read_line, in any order of the calls                *)

\* the objects malloc has handed out, by kind and by address, before any call
NoObjects ==
  [parser |-> <<>>, handler |-> <<>>, section |-> <<>>, block |-> <<>>, chunk |-> <<>>]

\* what a call hands back: the status or the pointer it returns, the objects
\* as it leaves them, and the handler invocations it made
Returned(ret, h, out) == [ret |-> ret, heap |-> h, out |-> out]

\* a dc_parser_new that gives every parser the handler object of the first
ParserNewOneHandler(h, was) ==
  Returned(Len(h.parser) + 1,
           [h EXCEPT !.handler = IF @ = <<>> THEN <<dc_error_handler_new>> ELSE @,
                     !.parser = Append(@, [head |-> Nil, tail |-> was,
                                           ctx |-> [path |-> NULL, line |-> 0],
                                           handler |-> 1])],
           <<>>)

\* dc_parser_new, with the dc_error_handler_new it calls: both objects are
\* new; the tail of the parser is left as malloc handed it out, which is was
ParserNewAt(h, was) ==
  Returned(Len(h.parser) + 1,
           [h EXCEPT !.handler = Append(@, dc_error_handler_new),
                     !.parser = Append(@, [head |-> Nil, tail |-> was,
                                           ctx |-> [path |-> NULL, line |-> 0],
                                           handler |-> Len(h.handler) + 1])],
           <<>>)

\* dc_parser_section_new
SectionNewAt(h) ==
  Returned(Len(h.section) + 1,
           [h EXCEPT !.section = Append(@, [head |-> Nil, tail |-> Nil, next |-> Nil])],
           <<>>)

\* dc_parser_append(parser, section) on the parser at p and the section at s
ParserAppendAt(h, p, s) ==
  IF h.parser[p].head = Nil
    THEN [h EXCEPT !.parser[p].head = s, !.parser[p].tail = s]
    ELSE [h EXCEPT !.section[LastSection(h.section, h.parser[p].head)].next = s,
                   !.parser[p].tail = s]

\* dc_parser_block_new(name): prev is left as malloc handed it out, which
\* is was.prev; the blocks of was.same are those whose prev was never written
\* and holds the address malloc hands out now
BlockNewAt(h, name, was) ==
  Returned(Len(h.block) + 1,
           [h EXCEPT !.block =
              Append([i \in 1..Len(h.block) |->
                        IF i \in was.same /\ h.block[i].prev = Wild
                          THEN [h.block[i] EXCEPT !.prev = Len(h.block) + 1]
                          ELSE h.block[i]],
                     [name |-> name, head |-> Nil, tail |-> Nil,
                      next |-> Nil, prev |-> was.prev])],
           <<>>)

\* dc_parser_section_append(section, block) on the section at s and the
\* block at b
SectionAppendAt(h, s, b) ==
  IF h.section[s].head = Nil
    THEN [h EXCEPT !.section[s].head = b, !.section[s].tail = b]
    ELSE [h EXCEPT !.block[b].prev = h.section[s].tail,
                   !.block[h.section[s].tail].next = b,
                   !.section[s].tail = b]

\* the loop of dc_parser_section_find from the block at b on: the address of
\* the first block whose name matches, NULL for none
RECURSIVE FindAt(_, _, _)
FindAt(h, b, field) ==
  IF b = Nil THEN Nil
  ELSE IF strcasecmp(h.block[b].name, field) THEN b
  ELSE FindAt(h, h.block[b].next, field)

\* a new chunk object that holds the chunk c, its next and prev NULL
ChunkNewAt(h, c) ==
  Returned(Len(h.chunk) + 1,
           [h EXCEPT !.chunk = Append(@, [text |-> c.text, type |-> c.type, ctx |-> c.ctx,
                                          next |-> Nil, prev |-> Nil])],
           <<>>)

\* dc_parser_block_append(block, chunk) on the block at b and the chunk at c
BlockAppendAt(h, b, c) ==
  IF h.block[b].head = Nil
    THEN [h EXCEPT !.block[b].head = c, !.block[b].tail = c]
    ELSE [h EXCEPT !.chunk[c].prev = h.block[b].tail,
                   !.chunk[h.block[b].tail].next = c,
                   !.block[b].tail = c]

\* dc_parse_chunk(parser, line) on the parser at p
ParseChunkAt(h, p, line) ==
  LET this == h.parser[p]
      handler == h.handler[this.handler]
      ctx == <<this.ctx>>
      made ==
        IF CharAt(line, 1) = "."
          THEN dc_parser_chunk_new(NULL, Overwritten)
          ELSE IF CharAt(line, 1) \in {" ", "\t"}
            THEN [dc_parser_chunk_new(From(line, 2), Overwritten) EXCEPT !.type = CHUNK_FIXED]
            ELSE dc_parser_chunk_new(From(line, 1), Overwritten)
      chunk == ChunkNewAt(h, [made EXCEPT !.ctx = this.ctx])
  IN IF h.section[this.tail].tail = Nil
       THEN Returned(dcSyntaxErr, h, <<dc_crit(handler, ctx, MsgNoBlock)>>)
     ELSE IF CharAt(line, 1) = "." /\ CharAt(line, 2) # NUL
       THEN Returned(dcSyntaxErr, h, <<dc_crit(handler, ctx, MsgReserved)>>)
     ELSE Returned(dcNoErr,
                   BlockAppendAt(chunk.heap, h.section[this.tail].tail, chunk.ret),
                   <<>>)

\* dc_parse_block(parser, line) on the parser at p; was is the memory
\* malloc hands out for a new block
ParseBlockAt(h, p, line, was) ==
  LET this == h.parser[p]
      handler == h.handler[this.handler]
      ctx == <<this.ctx>>
      split == ColonSplit(line)
      text == dc_strchug(split.text)
      found == FindAt(h, h.section[this.tail].head, split.field)
      new == BlockNewAt(h, split.field, was)
      block == IF found # Nil THEN found ELSE new.ret
      h1 == IF found # Nil THEN h ELSE SectionAppendAt(new.heap, this.tail, new.ret)
      chunk == ChunkNewAt(h1, [FieldChunk(text) EXCEPT !.ctx = this.ctx])
  IN IF split.text = <<>> /\ split.before # NUL
       THEN Returned(dcSyntaxErr, h, <<dc_crit(handler, ctx, MsgNoColon)>>)
     ELSE Returned(dcNoErr,
                   BlockAppendAt(chunk.heap, block, chunk.ret),
                   IF found # Nil THEN <<dc_warn(handler, ctx, MsgDuplicate)>> ELSE <<>>)

\* dc_parser_read_line(parser, line, len) on the parser at p
ReadLineAt(h, p, line, len, was) ==
  IF h.parser[p].head = Nil THEN Returned(dcParameterErr, h, <<>>)
  ELSE
    LET counted == [h EXCEPT !.parser[p].ctx.line = @ + 1]
        this == counted.parser[p]
        section == this.tail
        chomped == dc_strchomp(line, len)
        new == SectionNewAt(counted)
    IN IF CharAt(line, 0) = "#" THEN Returned(dcNoErr, counted, <<>>)
       ELSE IF CharAt(chomped, 0) = NUL
         THEN IF counted.section[section].tail = Nil
                THEN Returned(dcNoErr, counted,
                              <<dc_warn(counted.handler[this.handler],
                                        <<this.ctx>>, MsgBlank)>>)
                ELSE Returned(dcNoErr, ParserAppendAt(new.heap, p, new.ret), <<>>)
       ELSE IF CharAt(chomped, 0) \in {" ", "\t"}
         THEN ParseChunkAt(counted, p, chomped)
       ELSE ParseBlockAt(counted, p, chomped, was)

\* the number of lines passed to the two parsers together at most
MaxFeed == 4

\* the lines passed: a field, a continuation line and an empty line
FeedLines ==
  { <<"A", ":", "x", "\n">>,
    <<" ", "x", "\n">>,
    <<"\n">> }

\* the objects of the two parsers, and what the caller holds of them
Objects == docs[1]
Callers == docs[2]

\* the caller makes the first parser and gives it its first section, makes
\* the second parser and gives it its first section, and installs the warn
\* handler of its choice in the first
TwoParsers(warn) ==
  /\ docs = <<>>
  /\ \E was \in {Nil, Wild} :
       LET p1 == ParserNewAt(NoObjects, was)
           s1 == SectionNewAt(p1.heap)
           a1 == ParserAppendAt(s1.heap, p1.ret, s1.ret)
           p2 == ParserNewAt(a1, was)
           s2 == SectionNewAt(p2.heap)
           a2 == ParserAppendAt(s2.heap, p2.ret, s2.ret)
       IN docs' = << [a2 EXCEPT !.handler[a2.parser[p1.ret].handler] =
                                   dc_error_handler_warn(@, warn)],
                     [ptr |-> <<p1.ret, p2.ret>>,
                      warn |-> <<warn, NullHandler>>,
                      fed |-> << <<>>, <<>> >>,
                      statuses |-> << <<>>, <<>> >>,
                      out |-> << <<>>, <<>> >>] >>
  /\ UNCHANGED <<parser, reading, calls, blk, mem, seq, freed, handle,
                 sectioning, mapping, input, dstr, strops, owned>>

\* the memory malloc can hand out for the block a call on line makes: what
\* its prev holds, and the blocks whose unwritten prev holds its address;
\* only a call that reaches dc_parse_block asks for one
BlockMemory(h, line) ==
  IF CharAt(line, 0) \in {"#", " ", "\t"} \/ CharAt(dc_strchomp(line, Len(line)), 0) = NUL
    THEN { [prev |-> Nil, same |-> {}] }
    ELSE [prev : Indeterminate(h.block) \cup {Len(h.block) + 1},
          same : SUBSET { i \in 1..Len(h.block) : h.block[i].prev = Wild }]

\* dc_parser_read_line(parser, line, len) on parser d
Feed(d, line) ==
  /\ docs # <<>>
  /\ Len(Callers.fed[1]) + Len(Callers.fed[2]) < MaxFeed
  /\ \E was \in BlockMemory(Objects, line) :
       LET r == ReadLineAt(Objects, Callers.ptr[d], line, Len(line), was)
       IN docs' = << r.heap,
                     [Callers EXCEPT !.fed[d] = Append(@, line),
                                     !.statuses[d] = Append(@, r.ret),
                                     !.out[d] = @ \o r.out] >>
  /\ UNCHANGED <<parser, reading, calls, blk, mem, seq, freed, handle,
                 sectioning, mapping, input, dstr, strops, owned>>

NextTwo ==
  \/ \E warn \in {NullHandler, CallerWarn} : TwoParsers(warn)
  \/ \E d \in 1..2 : \E line \in FeedLines : Feed(d, line)

SpecTwo == Init /\ [][NextTwo]_vars

---------------------------------------------------------------------------
(* C37 *)

\* the chunks met from the chunk at c on, the blocks met from the block at b
\* on and the sections met from the section at s on, by following next
RECURSIVE ChunksFrom(_, _)
ChunksFrom(h, c) ==
  IF c = Nil THEN <<>>
  ELSE << [text |-> h.chunk[c].text, type |-> h.chunk[c].type, ctx |-> h.chunk[c].ctx] >>
         \o ChunksFrom(h, h.chunk[c].next)

RECURSIVE BlocksFrom(_, _)
BlocksFrom(h, b) ==
  IF b = Nil THEN <<>>
  ELSE << [name |-> h.block[b].name, chunks |-> ChunksFrom(h, h.block[b].head)] >>
         \o BlocksFrom(h, h.block[b].next)

RECURSIVE SectionsFrom(_, _)
SectionsFrom(h, s) ==
  IF s = Nil THEN <<>>
  ELSE << BlocksFrom(h, h.section[s].head) >> \o SectionsFrom(h, h.section[s].next)

\* all that is reached from the parser at p: its sections with their blocks
\* and chunks, its context and its handlers
Document(h, p) ==
  [head |-> SectionsFrom(h, h.parser[p].head),
   ctx |-> h.parser[p].ctx,
   handler |-> h.handler[h.parser[p].handler]]

\* a parser that is the only one: made with dc_parser_new, given the warn
\* handler and then its first section
Alone(warn) ==
  [parser |-> dc_parser_append([dc_parser_new EXCEPT
                                  !.handler = dc_error_handler_warn(@, warn)],
                               dc_parser_section_new),
   statuses |-> <<>>, out |-> <<>>]

\* that parser passed the given lines and nothing else: the parser, the
\* statuses returned and the invocations of its handlers
RECURSIVE FedAlone(_, _)
FedAlone(d, lines) ==
  IF lines = <<>> THEN d
  ELSE LET r == dc_parser_read_line(d.parser, Head(lines), Len(Head(lines)))
       IN FedAlone([d EXCEPT !.parser = r.parser,
                             !.statuses = Append(@, r.rc),
                             !.out = @ \o r.out],
                   Tail(lines))

\* C37: two parsers share no state: in whatever order the
\* dc_parser_read_line calls on the first and on the second are made, the
\* sections, blocks and chunks, the line counter, the statuses returned and
\* the invocations of the handlers of each are those of a parser that was
\* passed its own lines alone.
C37_ParsersShareNoState ==
  docs # <<>> =>
    \A d \in 1..2 :
      LET alone == FedAlone(Alone(Callers.warn[d]), Callers.fed[d])
          reached == Document(Objects, Callers.ptr[d])
      IN /\ reached = alone.parser
         /\ Callers.statuses[d] = alone.statuses
         /\ Callers.out[d] = alone.out
         /\ reached.ctx.line = Len(Callers.fed[d])

\* the first parser, with the warn handler of the caller, was passed an empty
\* line, which it warned of, and a field; the second a field and a
\* continuation line of it, and the calls alternated
C37_Witness ==
  /\ docs # <<>>
  /\ Callers.warn = <<CallerWarn, NullHandler>>
  /\ Callers.fed = << << <<"\n">>, <<"A", ":", "x", "\n">> >>,
                      << <<"A", ":", "x", "\n">>, <<" ", "x", "\n">> >> >>
  /\ Callers.statuses = << <<dcNoErr, dcNoErr>>, <<dcNoErr, dcNoErr>> >>
  /\ Len(Callers.out[1]) = 1 /\ Callers.out[1][1].fn = CallerWarn
  /\ Callers.out[2] = <<>>
  /\ Objects.section[1].head = 2
  /\ Objects.section[2].head = 1
  /\ Objects.block[1].tail = 3

---------------------------------------------------------------------------
(* C38 *)

\* the call of dc_error_handler_warn or dc_error_handler_crit a step made
HandlerSet == Len(calls') = Len(calls) + 1

\* C38: dc_error_handler_warn never changes the crit handler and
\* dc_error_handler_crit never changes the warn handler, whether they
\* replace a handler or restore the default; dc_warn invokes the installed
\* warn handler once and no other function, dc_crit the installed crit
\* handler once and no other function, and neither changes a handler.
C38_HandlersIndependent ==
  [][ /\ HandlerSet /\ calls'[Len(calls')].slot = "warn" =>
           /\ parser'.handler.crit = parser.handler.crit
           /\ diag' = diag
      /\ HandlerSet /\ calls'[Len(calls')].slot = "crit" =>
           /\ parser'.handler.warn = parser.handler.warn
           /\ diag' = diag
      /\ EmitWarn =>
           /\ Len(Emitted) = 1
           /\ Emitted[1].fn = parser.handler.warn
           /\ parser'.handler = parser.handler
      /\ EmitCrit =>
           /\ Len(Emitted) = 1
           /\ Emitted[1].fn = parser.handler.crit
           /\ parser'.handler = parser.handler
    ]_vars

\* the warn handler was replaced, then the crit handler was replaced and
\* restored, and a warning and a critical message were emitted: the warning
\* went to the caller's warn handler, the critical message to the default
C38_Witness ==
  /\ calls = << [slot |-> "warn", fn |-> CallerWarn],
                [slot |-> "crit", fn |-> CallerCrit],
                [slot |-> "crit", fn |-> NullHandler] >>
  /\ parser.handler = [warn |-> CallerWarn, crit |-> dc_emit_error]
  /\ Len(diag) = 2
  /\ diag[1].fn = CallerWarn
  /\ diag[2].fn = dc_emit_error

---------------------------------------------------------------------------
(* The dcString object on its own: text is the C string the buffer holds     *)
(* (the bytes in front of the first NUL), len and size are the fields of     *)
(* that name. Every operation gives the object as it leaves it, what it      *)
(* returns, and the indexes of the buffer it writes to                       *)

\* include/debctrl/control.h
STRING_INIT_SIZE == 4096
STRING_STEP_SIZE == 1024

Min(a, b) == IF a < b THEN a ELSE b

StringResult(string, ret, writes) == [string |-> string, ret |-> ret, writes |-> writes]

\* dc_string_new(size), the allocations succeeding
dc_string_new(size) ==
  StringResult([text |-> <<>>, len |-> 0,
                size |-> IF size = 0 THEN STRING_INIT_SIZE ELSE size],
               1, {0})

\* the loop of dc_string_resize
RECURSIVE Grown(_, _)
Grown(bufsize, size) ==
  IF bufsize < size THEN Grown(bufsize + STRING_STEP_SIZE, size) ELSE bufsize

\* dc_string_resize(string, size); ok tells whether realloc succeeds
dc_string_resize(string, size, ok) ==
  LET bufsize == IF size = 0 THEN string.len + 1 ELSE Grown(string.size, size)
  IN IF ok
       THEN StringResult([string EXCEPT !.size = bufsize], 1, {})
       ELSE StringResult(string, 0, {})

\* dc_string_append(string, text); ok tells whether realloc succeeds. When
\* it fails, strncat is given the count size - len - 4 as a size_t: a
\* difference below zero wraps around to a count no text reaches, and the
\* whole text is copied; the ellipsis goes to the indexes len - 3 to len - 1
\* of the new len = size - 1, which lie in front of the buffer when size < 4
dc_string_append_to(string, text, ok) ==
  LET len == Len(text)
      resized == dc_string_resize(string, string.len + len + 1, ok)
      grown == resized.string
  IN IF string.len + len >= string.size /\ resized.ret = 0
       THEN LET room == string.size - string.len # 0
                n == string.size - string.len - 4
                copied == IF ~room THEN <<>>
                          ELSE IF n < 0 THEN text ELSE SubSeq(text, 1, Min(n, len))
                cat == string.text \o copied
                last == IF room THEN string.size - 1 ELSE string.len
                dots == Min(3, last)
            IN StringResult([string EXCEPT
                               !.text = SubSeq(cat, 1, last - dots)
                                          \o [i \in 1..dots |-> "."],
                               !.len = last],
                            0,
                            (IF room THEN string.len..Len(cat) ELSE {})
                              \cup ((last - 3)..last))
     ELSE LET s == IF string.len + len >= string.size THEN grown ELSE string
          IN StringResult([s EXCEPT !.text = @ \o text, !.len = @ + len],
                          1, s.len..(s.len + len))

\* dc_string_append_c(string, c); ok tells whether realloc succeeds
dc_string_append_char(string, c, ok) ==
  LET resized == dc_string_resize(string, string.len + 2, ok)
  IN IF string.len + 1 >= string.size /\ resized.ret = 0
       THEN StringResult(string, 0, {})
     ELSE LET s == IF string.len + 1 >= string.size THEN resized.string ELSE string
          IN StringResult([s EXCEPT !.text = Append(@, c), !.len = @ + 1],
                          1, {s.len, s.len + 1})

\* dc_string_free(ptr): the text and the object are passed to free(), and
\* the caller's pointer is NULL
dc_string_free(string) ==
  StringResult([text |-> NULL, len |-> 0, size |-> 0], 0, {})

\* the operation wrote inside the buffer only
WithinBuffer(r) == r.writes \subseteq 0..(r.string.size - 1)

\* how the object can be left: as the operation leaves it; when it wrote
\* outside the buffer the behaviour is undefined, and the process may as
\* well have ended
Outcomes(r) ==
  IF WithinBuffer(r) THEN {r.string} ELSE {r.string, [r.string EXCEPT !.text = CRASH]}

(* The caller of the dcString operations *)

\* the number of calls made on the string at most
MaxStringOps == 3

\* the arguments of the calls
NewSizes == {0, 2, 8}
AppendTexts == { <<"a">>, <<"b", "c", "d", "e">> }
ResizeSizes == {0, 6}

\* no call so far wrote outside the buffer
NoneOutside ==
  \A i \in 1..Len(strops) : strops[i].writes \subseteq 0..(strops[i].size - 1)

\* the call and what it did, for the record of the calls
Called(op, ok, r) ==
  [op |-> op, ok |-> ok, ret |-> r.ret, writes |-> r.writes, size |-> r.string.size]

\* string = dc_string_new(size)
StringNew(size) ==
  /\ dstr.text = NULL
  /\ LET r == dc_string_new(size)
     IN /\ dstr' = r.string
        /\ strops' = <<Called("new", TRUE, r)>>
  /\ UNCHANGED <<parser, reading, calls, blk, mem, seq, freed, handle,
                 sectioning, mapping, input, docs, owned>>

\* a call on the string is possible
StringCall ==
  /\ dstr.text # NULL
  /\ NoneOutside
  /\ Len(strops) <= MaxStringOps

\* dc_string_append(string, text)
StringAppend(text, ok) ==
  /\ StringCall
  /\ LET r == dc_string_append_to(dstr, text, ok)
     IN /\ dstr' \in Outcomes(r)
        /\ strops' = Append(strops, Called("append", ok, r))
  /\ UNCHANGED <<parser, reading, calls, blk, mem, seq, freed, handle,
                 sectioning, mapping, input, docs, owned>>

\* dc_string_append_c(string, c)
StringAppendC(c, ok) ==
  /\ StringCall
  /\ LET r == dc_string_append_char(dstr, c, ok)
     IN /\ dstr' \in Outcomes(r)
        /\ strops' = Append(strops, Called("append_c", ok, r))
  /\ UNCHANGED <<parser, reading, calls, blk, mem, seq, freed, handle,
                 sectioning, mapping, input, docs, owned>>

\* dc_string_resize(string, size)
StringResize(size, ok) ==
  /\ StringCall
  /\ LET r == dc_string_resize(dstr, size, ok)
     IN /\ dstr' \in Outcomes(r)
        /\ strops' = Append(strops, Called("resize", ok, r))
  /\ UNCHANGED <<parser, reading, calls, blk, mem, seq, freed, handle,
                 sectioning, mapping, input, docs, owned>>

\* dc_string_free(&string)
StringFree ==
  /\ dstr.text # NULL
  /\ NoneOutside
  /\ LET r == dc_string_free(dstr)
     IN /\ dstr' = r.string
        /\ strops' = Append(strops, Called("free", TRUE, r))
  /\ UNCHANGED <<parser, reading, calls, blk, mem, seq, freed, handle,
                 sectioning, mapping, input, docs, owned>>

NextString ==
  \/ \E size \in NewSizes : StringNew(size)
  \/ StringFree
  \/ \E text \in AppendTexts : \E ok \in BOOLEAN : StringAppend(text, ok)
  \/ \E ok \in BOOLEAN : StringAppendC("c", ok)
  \/ \E size \in ResizeSizes : \E ok \in BOOLEAN : StringResize(size, ok)

SpecString == Init /\ [][NextString]_vars

(* C39: whatever calls are made on a dcString, and whether or not realloc    *)
(* succeeds in them, size is at least len + 1, the byte at index len is the  *)
(* terminating NUL, and no call writes at an index outside 0 .. size - 1     *)
SizeCoversText == dstr.text # NULL => dstr.size >= dstr.len + 1

TerminatedAtLen == dstr.text \notin {NULL, CRASH} => Len(dstr.text) = dstr.len

C39_StringWithinBuffer == SizeCoversText /\ TerminatedAtLen /\ NoneOutside

\* a dc_string_append whose realloc failed with fewer than four bytes free
\* behind the text wrote outside the buffer
C39_WroteOutside ==
  /\ Len(strops) >= 2
  /\ LET last == strops[Len(strops)]
     IN /\ last.op = "append"
        /\ ~last.ok
        /\ \E i \in last.writes : i >= last.size
  /\ dstr.text # CRASH

\* what holds: the fields stay consistent, and only a dc_string_append in
\* which realloc failed writes outside the buffer
C39_OutsideOnlyInFailedAppend ==
  /\ SizeCoversText
  /\ TerminatedAtLen
  /\ \A i \in 1..Len(strops) :
       strops[i].writes \subseteq 0..(strops[i].size - 1)
         \/ (strops[i].op = "append" /\ ~strops[i].ok /\ strops[i].ret = 0)

\* the ellipsis of a failed dc_string_append went in front of the buffer
C39_WroteInFront ==
  /\ strops # <<>>
  /\ \E i \in strops[Len(strops)].writes : i < 0

\* a failed dc_string_append with four bytes or more free truncated the text
\* inside the buffer
C39_TruncatedWitness ==
  /\ Len(strops) = 3
  /\ strops[3].op = "append" /\ strops[3].ret = 0
  /\ NoneOutside
  /\ dstr = [text |-> <<"b", "c", "d", "e", ".", ".", ".">>, len |-> 7, size |-> 8]

---------------------------------------------------------------------------
(* C40 *)

\* the step gave the message of a line without a colon
NoColonReported == \E i \in 1..Len(Emitted) : Emitted[i].msg = MsgNoColon

\* the blocks of the section being filled that have the empty name
Nameless(p) == { b \in 1..OpenBlocks(p) : ParserTail(p)[b].name = <<>> }

\* C40: a field line whose first character is a colon is no syntax error:
\* the status is dcNoErr, no critical message is given, and its chunk goes to
\* a block whose name is the empty string, created when the section has none
\* and merged into otherwise; the message of the missing colon is given for
\* the lines without any colon only, which return dcSyntaxErr.
C40_EmptyNameAccepted ==
  [][ LineHandled =>
        /\ NoColonReported <=> IsFieldLike(HandledLine) /\ ~HasColon(HandledLine)
        /\ NoColonReported => rc' = dcSyntaxErr /\ parser'.head = parser.head
        /\ IsFieldLike(HandledLine) /\ HandledLine[1] = ":" =>
             /\ rc' = dcNoErr
             /\ \A i \in 1..Len(Emitted) : Emitted[i].sev # "crit"
             /\ IF Nameless(parser) = {}
                  THEN /\ OpenBlocks(parser') = OpenBlocks(parser) + 1
                       /\ Nameless(parser') = {OpenBlocks(parser')}
                       /\ Len(ParserTail(parser')[OpenBlocks(parser')].chunks) = 1
                  ELSE /\ OpenBlocks(parser') = OpenBlocks(parser)
                       /\ Nameless(parser') = Nameless(parser)
                       /\ \A b \in Nameless(parser) :
                            Len(ParserTail(parser')[b].chunks) =
                              Len(ParserTail(parser)[b].chunks) + 1
    ]_vars

\* ':x' was read twice and then a line without a colon: the first made the
\* block of the empty name, the second went into it, and only the third was
\* refused
C40_Witness ==
  /\ Len(file) = 3
  /\ file[1][1] = ":" /\ file[2][1] = ":" /\ ~HasColon(file[3])
  /\ Len(parser.head) = 1
  /\ Len(parser.head[1]) = 1
  /\ parser.head[1][1].name = <<>>
  /\ Len(parser.head[1][1].chunks) = 2
  /\ Len(Criticals) = 1
  /\ Criticals[1].msg = MsgNoColon
  /\ Criticals[1].ctx = <<parser.ctx>>
  /\ parser.ctx.line = 3

===========================================================================
